---- MODULE Spec2Model ----
(***************************************************************************)
(* TreeView-Explorer: the terminal directory explorer                      *)
(* (class InteractiveDirectoryTree, second version in src/unnamed/part_002 *)
(* from line 796 on) and the blessed front end (DirectoryTree, TreeUI,     *)
(* DirectoryTreeNode, FileExport).                                         *)
(*                                                                         *)
(* A path string is kept as its sequence of tokens: the separator "/" and  *)
(* the entry names, so "/r/c" is <<"/", "r", "/", "c">> and "" is <<>>.     *)
(* Objects live in a heap (a sequence of records); a reference is an index *)
(* into it and 0 is null.  Indices into JavaScript arrays are 0-based as   *)
(* in the source; element i of an array a is a[i + 1] here.                *)
(***************************************************************************)
EXTENDS Integers, Sequences, FiniteSets, Bags, TLC

(***************************************************************************)
(* Bounds of the model.                                                    *)
(***************************************************************************)
\* loadLargeDirectoryContents calls that may be in flight at the same time
MaxPending == 2
\* DirectoryNode objects the tree may hold
MaxNodes == 5

(***************************************************************************)
(* Strings and paths.                                                      *)
(***************************************************************************)
Null == 0

Sep == "/"

EmptyString == <<>>

\* the ignore list of the second version
IGNORE_DIRS == {"node_modules", ".git", "dist", "build", ".next", ".cache"}

\* String.prototype.lastIndexOf('/'): 0-based index of the last separator, -1 if none
LastIndexOfSep(p) ==
    LET idx == {i \in 1..Len(p) : p[i] = Sep}
    IN  IF idx = {} THEN -1 ELSE (CHOOSE i \in idx : \A j \in idx : j <= i) - 1

\* String.prototype.substring(0, end); a negative end counts as 0
Substring0(p, end) == IF end <= 0 THEN EmptyString ELSE SubSeq(p, 1, end)

\* node.path.substring(0, node.path.lastIndexOf('/'))
ParentPath(p) == Substring0(p, LastIndexOfSep(p))

\* path.join(dir, name) for a normalised absolute dir and a single name
Join(dir, name) == IF dir = <<Sep>> THEN <<Sep, name>> ELSE dir \o <<Sep, name>>

\* rootPath.split('/').pop() || ''
RootName(p) == IF Len(p) = 0 \/ p[Len(p)] = Sep THEN "" ELSE p[Len(p)]

(***************************************************************************)
(* The file systems the explorer is started on.  readdir gives the entries *)
(* of a directory in the order the file system keeps them, which is not    *)
(* the sorted order.                                                       *)
(***************************************************************************)
\* an entry readdir names; error says that stat(entry) throws (dangling link, vanished)
Ent(n, d) == [name |-> n, isDirectory |-> d, error |-> FALSE]

ErrEnt(n) == [name |-> n, isDirectory |-> FALSE, error |-> TRUE]

\* root with a.txt, b.txt and c/ holding d.txt
FsPlain ==
    [rootPath |-> <<Sep, "r">>,
     readdir  |-> (<<Sep, "r">> :> <<Ent("b.txt", FALSE), Ent("c", TRUE), Ent("a.txt", FALSE)>>)
               @@ (<<Sep, "r", Sep, "c">> :> <<Ent("d.txt", FALSE)>>)]

\* nested ordinary directories
FsNested ==
    [rootPath |-> <<Sep, "r">>,
     readdir  |-> (<<Sep, "r">> :> <<Ent("c", TRUE)>>)
               @@ (<<Sep, "r", Sep, "c">> :> <<Ent("d.txt", FALSE), Ent("e", TRUE)>>)
               @@ (<<Sep, "r", Sep, "c", Sep, "e">> :> <<Ent("f.txt", FALSE)>>)]

\* an ignored directory below the root
FsIgnored ==
    [rootPath |-> <<Sep, "r">>,
     readdir  |-> (<<Sep, "r">> :> <<Ent("build", TRUE)>>)
               @@ (<<Sep, "r", Sep, "build">> :> <<Ent("y.txt", FALSE)>>)]

\* the explorer started inside an ignored directory that holds another ignored one
FsIgnoredNest ==
    [rootPath |-> <<Sep, "build">>,
     readdir  |-> (<<Sep, "build">> :> <<Ent("dist", TRUE)>>)
               @@ (<<Sep, "build", Sep, "dist">> :> <<Ent("y.txt", FALSE)>>)]

\* the explorer started inside an ignored directory that holds an empty ignored one
FsIgnoredRoot ==
    [rootPath |-> <<Sep, "dist">>,
     readdir  |-> (<<Sep, "dist">> :> <<Ent("x.txt", FALSE), Ent("build", TRUE)>>)
               @@ (<<Sep, "dist", Sep, "build">> :> <<>>)]

\* the explorer started inside an ignored directory that holds an ordinary one
FsDeferredSub ==
    [rootPath |-> <<Sep, "build">>,
     readdir  |-> (<<Sep, "build">> :> <<Ent("c", TRUE)>>)
               @@ (<<Sep, "build", Sep, "c">> :> <<Ent("d.txt", FALSE)>>)]

\* the explorer started on a path that does not exist: no directory can be read
FsMissing ==
    [rootPath |-> <<Sep, "r">>,
     readdir  |-> [p \in {} |-> <<>>]]

\* a flat directory of four files, used with the contents of Disk
FsView ==
    [rootPath |-> <<Sep, "r">>,
     readdir  |-> (<<Sep, "r">> :> <<Ent("d.txt", FALSE), Ent("c.png", FALSE),
                                    Ent("b.txt", FALSE), Ent("a.txt", FALSE)>>)]

\* two deferred directories, one in the other, the inner one holding an empty
\* directory
FsEmptySub ==
    [rootPath |-> <<Sep, "build">>,
     readdir  |-> (<<Sep, "build">> :> <<Ent("dist", TRUE)>>)
               @@ (<<Sep, "build", Sep, "dist">> :> <<Ent("c", TRUE)>>)
               @@ (<<Sep, "build", Sep, "dist", Sep, "c">> :> <<>>)]

\* a directory with three files, below the root
FsSiblings ==
    [rootPath |-> <<Sep, "r">>,
     readdir  |-> (<<Sep, "r">> :> <<Ent("c", TRUE)>>)
               @@ (<<Sep, "r", Sep, "c">> :> <<Ent("a.txt", FALSE), Ent("b.txt", FALSE),
                                               Ent("d.txt", FALSE)>>)]

\* the explorer started on the root of the file system, which holds a file and a
\* deferred directory
FsSlash ==
    [rootPath |-> <<Sep>>,
     readdir  |-> (<<Sep>> :> <<Ent("build", TRUE), Ent("a.txt", FALSE)>>)
               @@ (<<Sep, "build">> :> <<Ent("y.txt", FALSE)>>)]

FileSystems ==
    <<FsPlain, FsNested, FsIgnored, FsIgnoredNest, FsIgnoredRoot, FsMissing, FsView,
      FsDeferredSub, FsEmptySub, FsSiblings, FsSlash>>

\* readdir(path) answers; otherwise it throws (ENOENT, ENOTDIR, EACCES)
ReadDirOk(readdir, path) == path \in DOMAIN readdir

\* String.prototype.localeCompare on the entry names in use: their collation order
Collation ==
    <<"a.txt", "b.txt", "build", "c", "c.png", "d.txt", "dist", "e", "f.txt", "x.txt", "y.txt">>

Rank(n) == CHOOSE i \in 1..Len(Collation) : Collation[i] = n

LocaleCompare(a, b) == Rank(a) - Rank(b)

\* the comparator of the three sort calls: directories first, then by name
CompareEntries(a, b) ==
    IF a.isDirectory /\ ~b.isDirectory THEN -1
    ELSE IF ~a.isDirectory /\ b.isDirectory THEN 1
    ELSE LocaleCompare(a.name, b.name)

\* insert e into the sorted sequence s behind every element that is not greater (stable)
RECURSIVE InsertSorted(_, _)
InsertSorted(s, e) ==
    IF s = <<>> THEN <<e>>
    ELSE IF CompareEntries(e, s[1]) < 0 THEN <<e>> \o s
    ELSE <<s[1]>> \o InsertSorted(Tail(s), e)

\* Array.prototype.sort with CompareEntries
RECURSIVE SortEntries(_)
SortEntries(s) ==
    IF s = <<>> THEN <<>>
    ELSE InsertSorted(SortEntries(SubSeq(s, 1, Len(s) - 1)), s[Len(s)])

RECURSIVE Reverse(_)
Reverse(s) == IF s = <<>> THEN <<>> ELSE Append(Reverse(Tail(s)), s[1])

(***************************************************************************)
(* State of the explorer (second version of InteractiveDirectoryTree).     *)
(***************************************************************************)
VARIABLES
    fs,              \* index of the file system the explorer runs on
    mode,            \* "new" after the constructor, "tree" in the key loop, "exited"
    heap,            \* the DirectoryNode objects reachable from root
    root,            \* this.root
    nodeMap,         \* this.nodeMap: path -> DirectoryNode
    visibleNodes,    \* this.visibleNodes
    cursorPosition,  \* this.cursorPosition
    pending,         \* the directories of the loadLargeDirectoryContents calls in flight
    uiMode,          \* blessed front end: "new", "run" once TreeUI is shown, "exited"
    uiHeap,          \* the DirectoryTreeNode objects
    rootNode,        \* DirectoryTree.rootNode
    treeNodeMap,     \* DirectoryTree.nodeMap: path -> DirectoryTreeNode
    nodesByRow,      \* TreeUI.nodesByRow, row r at position r + 1
    selectedPaths,   \* FileExport.selectedPaths
    sub,             \* the await a key handler of start() is suspended at, "none" if none
    textFiles,       \* viewSelectedContent: textFiles
    binaryFiles,     \* viewSelectedContent: binaryFiles
    currentFileIndex,\* viewSelectedContent: currentFileIndex
    currentPage,     \* viewSelectedContent: currentPage
    written,         \* what writeFileSync has put on disk last
    file,            \* the file isBinaryFile is called on
    isBinary,        \* what isBinaryFile returned ("true" / "false"), "unset" before the call
    scanFs,          \* the directory listings the three scans are tried on
    scanned          \* the tree each scan has built on scanFs

explorerVars == <<mode, heap, root, nodeMap, visibleNodes, cursorPosition, pending>>

uiVars == <<uiMode, uiHeap, rootNode, treeNodeMap, nodesByRow, selectedPaths>>

viewVars == <<sub, textFiles, binaryFiles, currentFileIndex, currentPage, written>>

binVars == <<file, isBinary>>

scanVars == <<scanFs, scanned>>

vars == <<fs, explorerVars, uiVars, viewVars, binVars, scanVars>>

\* new DirectoryNode(path, name, isDirectory); childrenCount and fileCount are
\* written but never read and are left out
DirectoryNode(path, name, isDirectory) ==
    [path |-> path, name |-> name, isDirectory |-> isDirectory, children |-> <<>>,
     expanded |-> FALSE, selected |-> FALSE, partiallySelected |-> FALSE]

\* an element of visibleNodes: a node of the tree, or the placeholder object that
\* updateVisibleNodes creates for the directory `node` (the placeholder's own fields
\* are kept in the element, no other object refers to it)
NodeRef(id) ==
    [node |-> id, placeholder |-> FALSE,
     expanded |-> FALSE, selected |-> FALSE, partiallySelected |-> FALSE]

Placeholder(id) ==
    [node |-> id, placeholder |-> TRUE,
     expanded |-> FALSE, selected |-> FALSE, partiallySelected |-> FALSE]

PathOf(h, e) == IF e.placeholder THEN Join(h[e.node].path, "...") ELSE h[e.node].path

\* a reading of the flag that takes a partially selected node for a selected one
SelectedOrPartialOf(h, e) ==
    IF e.placeholder THEN e.selected \/ e.partiallySelected
    ELSE h[e.node].selected \/ h[e.node].partiallySelected

SelectedOf(h, e) == IF e.placeholder THEN e.selected ELSE h[e.node].selected

PartialOf(h, e) == IF e.placeholder THEN e.partiallySelected ELSE h[e.node].partiallySelected

MapSet(m, k, v) == [x \in (DOMAIN m) \cup {k} |-> IF x = k THEN v ELSE m[x]]

EmptyMap == [x \in {} |-> Null]

(***************************************************************************)
(* buildTree and scanDirectory.                                            *)
(***************************************************************************)
RECURSIVE ScanDirectory(_, _, _)
RECURSIVE ScanEntries(_, _, _, _)

\* the for loop of scanDirectory over the sorted entries, from entry k on
ScanEntries(st, readdir, id, k) ==
    LET sorted == SortEntries(readdir[st.heap[id].path])
    IN  IF k > Len(sorted) THEN st
        ELSE IF sorted[k].error THEN ScanEntries(st, readdir, id, k + 1)
        ELSE LET entry   == sorted[k]
                 child   == Len(st.heap) + 1
                 path    == Join(st.heap[id].path, entry.name)
                 h1      == Append(st.heap, DirectoryNode(path, entry.name, entry.isDirectory))
                 h2      == [h1 EXCEPT ![id].children = Append(@, child)]
                 st1     == [heap |-> h2, nodeMap |-> MapSet(st.nodeMap, path, child)]
                 st2     == IF entry.isDirectory THEN ScanDirectory(st1, readdir, child) ELSE st1
             IN  ScanEntries(st2, readdir, id, k + 1)

ScanDirectory(st, readdir, id) ==
    IF ~ReadDirOk(readdir, st.heap[id].path) THEN st
    ELSE IF st.heap[id].name \in IGNORE_DIRS THEN st
    ELSE ScanEntries(st, readdir, id, 1)

(***************************************************************************)
(* updateVisibleNodes.                                                     *)
(***************************************************************************)
\* a stack walk that pushes the children first to last
RECURSIVE StackWalkForward(_, _, _)
StackWalkForward(h, stack, out) ==
    IF stack = <<>> THEN out
    ELSE LET top       == stack[Len(stack)]
             rest      == SubSeq(stack, 1, Len(stack) - 1)
             id        == top[1]
             isVisible == top[2]
             out1      == IF isVisible THEN Append(out, NodeRef(id)) ELSE out
         IN  IF h[id].isDirectory /\ h[id].expanded /\ isVisible
             THEN IF h[id].name \in IGNORE_DIRS /\ Len(h[id].children) = 0
                  THEN StackWalkForward(h, rest, Append(out1, Placeholder(id)))
                  ELSE StackWalkForward(h,
                                        rest \o [i \in 1..Len(h[id].children) |->
                                                    <<h[id].children[i], TRUE>>],
                                        out1)
             ELSE StackWalkForward(h, rest, out1)

\* the while loop over the explicit stack of [node, isVisible] pairs
RECURSIVE StackWalk(_, _, _)
StackWalk(h, stack, out) ==
    IF stack = <<>> THEN out
    ELSE LET top       == stack[Len(stack)]
             rest      == SubSeq(stack, 1, Len(stack) - 1)
             id        == top[1]
             isVisible == top[2]
             out1      == IF isVisible THEN Append(out, NodeRef(id)) ELSE out
         IN  IF h[id].isDirectory /\ h[id].expanded /\ isVisible
             THEN IF h[id].name \in IGNORE_DIRS /\ Len(h[id].children) = 0
                  THEN StackWalk(h, rest, Append(out1, Placeholder(id)))
                  ELSE StackWalk(h,
                                 rest \o [i \in 1..Len(h[id].children) |->
                                             <<Reverse(h[id].children)[i], TRUE>>],
                                 out1)
             ELSE StackWalk(h, rest, out1)

\* Array.prototype.findIndex(node => node.path === p): 0-based, -1 if none
FindIndexByPath(h, vis, p) ==
    LET idx == {i \in 1..Len(vis) : PathOf(h, vis[i]) = p}
    IN  IF idx = {} THEN -1 ELSE (CHOOSE i \in idx : \A j \in idx : i <= j) - 1

Min(a, b) == IF a <= b THEN a ELSE b

Max(a, b) == IF a >= b THEN a ELSE b

\* a relocation that takes the result of findIndex as it is
RelocateCursorUnchecked(h, newVis, hasCurrent, currentNodePath, cur) ==
    IF hasCurrent THEN FindIndexByPath(h, newVis, currentNodePath) ELSE 0

\* a relocation that falls back to the first row when the path is gone
RelocateCursorToTop(h, newVis, hasCurrent, currentNodePath, cur) ==
    LET newIndex == FindIndexByPath(h, newVis, currentNodePath)
    IN  IF hasCurrent /\ newIndex # -1 THEN newIndex ELSE 0

\* the cursor after the rebuild; hasCurrent is FALSE when currentNodePath is null
RelocateCursor(h, newVis, hasCurrent, currentNodePath, cur) ==
    LET newIndex == FindIndexByPath(h, newVis, currentNodePath)
        c1 == IF hasCurrent
              THEN IF newIndex # -1 THEN newIndex ELSE Min(cur, Len(newVis) - 1)
              ELSE 0
    IN  IF c1 < 0 \/ Len(newVis) = 0 THEN 0
        ELSE IF c1 >= Len(newVis) THEN Len(newVis) - 1
        ELSE c1

\* updateVisibleNodes on the tree h with the old list vis and the old cursor cur
UpdateVisibleNodes(h, rt, vis, cur) ==
    LET hasCurrent == Len(vis) > 0 /\ cur < Len(vis)
        currentNodePath == IF hasCurrent THEN PathOf(h, vis[cur + 1]) ELSE EmptyString
        h1 == IF rt # Null THEN [h EXCEPT ![rt].expanded = TRUE] ELSE h
        newVis == IF rt # Null THEN StackWalk(h1, << <<rt, TRUE>> >>, <<>>) ELSE <<>>
    IN  [heap |-> h1, visibleNodes |-> newVis,
         cursorPosition |-> RelocateCursor(h1, newVis, hasCurrent, currentNodePath, cur)]

\* no writeFileSync call has happened
NothingWritten == [kind |-> "none"]

\* a file on disk: its bytes, or unreadable (readFileSync throws)
FileOf(bytes) == [readable |-> TRUE, bytes |-> bytes]

Unreadable == [readable |-> FALSE, bytes |-> <<>>]

NoFile == Unreadable

\* no directory can be read
NoListings == [p \in {} |-> <<>>]

\* the result of a scan that has not run, and that of one that has
NoTree == [done |-> FALSE, heap |-> <<>>, nodeMap |-> EmptyMap]

TreeOf(st) == [done |-> TRUE, heap |-> st.heap, nodeMap |-> st.nodeMap]

NotScanned == [v1 |-> NoTree, v2 |-> NoTree, ui |-> NoTree]

\* the positions of the listeners registered next to the main one: the
\* view/save menu, waitForKeyPress, the pager's key wait, the wait after a
\* read error
SubListening == sub \in {"choice", "anykey", "pager", "errorKey"}

(***************************************************************************)
(* Initial state: the object after its constructor.                        *)
(***************************************************************************)
InitObjects ==
    /\ mode = "new"
    /\ heap = <<>>
    /\ root = Null
    /\ nodeMap = EmptyMap
    /\ visibleNodes = <<>>
    /\ cursorPosition = 0
    /\ pending = EmptyBag
    /\ uiMode = "new"
    /\ uiHeap = <<>>
    /\ rootNode = Null
    /\ treeNodeMap = EmptyMap
    /\ nodesByRow = <<>>
    /\ selectedPaths = <<>>
    /\ sub = "none"
    /\ textFiles = <<>>
    /\ binaryFiles = <<>>
    /\ currentFileIndex = 0
    /\ currentPage = 0
    /\ written = NothingWritten
    /\ scanned = NotScanned

\* the place of a directory layout in FileSystems
IndexOf(layout) == CHOOSE i \in DOMAIN FileSystems : FileSystems[i] = layout

\* the explorer is started on one of the directory layouts; the layout with an empty
\* directory below two deferred ones is explored by SpecNest, the start on the root
\* of the file system by SpecSlash
Init ==
    /\ fs \in (1..Len(FileSystems)) \ {IndexOf(FsEmptySub), IndexOf(FsSlash)}
    /\ InitObjects
    /\ scanFs = NoListings
    /\ file = NoFile
    /\ isBinary = "unset"

\* main: await tree.buildTree(); tree.start() registers the key listener
BuildTree ==
    /\ mode = "new"
    /\ LET rootPath == FileSystems[fs].rootPath
           h0 == <<DirectoryNode(rootPath, RootName(rootPath), TRUE)>>
           st == ScanDirectory([heap |-> h0, nodeMap |-> MapSet(EmptyMap, rootPath, 1)],
                               FileSystems[fs].readdir, 1)
           uv == UpdateVisibleNodes(st.heap, 1, visibleNodes, cursorPosition)
       IN  /\ root' = 1
           /\ nodeMap' = st.nodeMap
           /\ heap' = uv.heap
           /\ visibleNodes' = uv.visibleNodes
           /\ cursorPosition' = uv.cursorPosition
    /\ mode' = "tree"
    /\ UNCHANGED <<fs, pending, uiVars, viewVars, binVars, scanVars>>

(***************************************************************************)
(* Selection: toggleSelect, setSelectionRecursive and the upward walk.     *)
(***************************************************************************)
\* a stamp that stops at the node itself
SetSelectionShallow(h, id, selected) ==
    [h EXCEPT ![id].selected = selected, ![id].partiallySelected = FALSE]

RECURSIVE SetSelectionRecursive(_, _, _)
RECURSIVE SetSelectionChildren(_, _, _, _)

\* the for loop of setSelectionRecursive over node.children, from child k on
SetSelectionChildren(h, id, selected, k) ==
    IF k > Len(h[id].children) THEN h
    ELSE SetSelectionChildren(SetSelectionRecursive(h, h[id].children[k], selected),
                              id, selected, k + 1)

SetSelectionRecursive(h, id, selected) ==
    LET h1 == [h EXCEPT ![id].selected = selected, ![id].partiallySelected = FALSE]
    IN  IF h1[id].isDirectory THEN SetSelectionChildren(h1, id, selected, 1) ELSE h1

\* a recomputation that marks a directory partial as soon as one child is selected
\* or partial
UpdateDirectoryAnySelected(h, dir) ==
    IF ~h[dir].isDirectory \/ Len(h[dir].children) = 0 THEN h
    ELSE LET kids == {h[dir].children[i] : i \in 1..Len(h[dir].children)}
             anySelected == \E c \in kids : h[c].selected \/ h[c].partiallySelected
         IN  IF anySelected
             THEN [h EXCEPT ![dir].selected = FALSE, ![dir].partiallySelected = TRUE]
             ELSE [h EXCEPT ![dir].selected = FALSE, ![dir].partiallySelected = FALSE]

\* updateDirectorySelectionState(dir)
UpdateDirectorySelectionState(h, dir) ==
    IF ~h[dir].isDirectory \/ Len(h[dir].children) = 0 THEN h
    ELSE LET kids == {h[dir].children[i] : i \in 1..Len(h[dir].children)}
             allSelected == \A c \in kids : h[c].selected
             anySelected == \E c \in kids : h[c].selected \/ h[c].partiallySelected
         IN  IF allSelected
             THEN [h EXCEPT ![dir].selected = TRUE, ![dir].partiallySelected = FALSE]
             ELSE IF anySelected
             THEN [h EXCEPT ![dir].selected = FALSE, ![dir].partiallySelected = TRUE]
             ELSE [h EXCEPT ![dir].selected = FALSE, ![dir].partiallySelected = FALSE]

\* a walk that recomputes the parent and no directory above it
UpdateParentOnly(h, nm, path) ==
    LET parentPath == ParentPath(path)
    IN  IF parentPath \notin DOMAIN nm THEN h
        ELSE UpdateDirectorySelectionState(h, nm[parentPath])

\* updateParentSelectionStates for a node with the given path: the parent is looked
\* up under the path cut at its last separator, until the lookup finds nothing
RECURSIVE UpdateParentSelectionStates(_, _, _)
UpdateParentSelectionStates(h, nm, path) ==
    LET parentPath == ParentPath(path)
    IN  IF parentPath \notin DOMAIN nm THEN h
        ELSE UpdateParentSelectionStates(UpdateDirectorySelectionState(h, nm[parentPath]),
                                         nm, h[nm[parentPath]].path)

\* toggleSelect with the cursor at cur: the heap and the visible list after it
ToggleSelectAt(h, nm, vis, cur) ==
    IF cur + 1 \notin DOMAIN vis THEN [heap |-> h, visibleNodes |-> vis]
    ELSE LET currentNode == vis[cur + 1]
             newSelectionState == ~SelectedOf(h, currentNode)
         IN  IF currentNode.placeholder
             THEN [heap |-> UpdateParentSelectionStates(h, nm, PathOf(h, currentNode)),
                   visibleNodes |-> [vis EXCEPT ![cur + 1].selected = newSelectionState,
                                                ![cur + 1].partiallySelected = FALSE]]
             ELSE LET id == currentNode.node
                      h1 == [h EXCEPT ![id].selected = newSelectionState,
                                      ![id].partiallySelected = FALSE]
                      h2 == IF h1[id].isDirectory
                            THEN SetSelectionRecursive(h1, id, newSelectionState)
                            ELSE h1
                  IN  [heap |-> UpdateParentSelectionStates(h2, nm, h2[id].path),
                       visibleNodes |-> vis]

(***************************************************************************)
(* Expansion: toggleExpand and loadLargeDirectoryContents.                 *)
(***************************************************************************)
\* whether toggleExpand with the cursor at cur starts loadLargeDirectoryContents
StartsLoad(h, vis, cur) ==
    /\ cur + 1 \in DOMAIN vis
    /\ ~vis[cur + 1].placeholder
    /\ h[vis[cur + 1].node].isDirectory
    /\ h[vis[cur + 1].node].name \in IGNORE_DIRS
    /\ Len(h[vis[cur + 1].node].children) = 0

\* toggleExpand with the cursor at cur when it does not start a load
ToggleExpandAt(h, rt, vis, cur) ==
    IF cur + 1 \notin DOMAIN vis
    THEN [heap |-> h, visibleNodes |-> vis, cursorPosition |-> cur]
    ELSE LET currentNode == vis[cur + 1]
         IN  IF currentNode.placeholder
             THEN \* the placeholder is a directory whose name is not ignored: its own
                  \* expanded flag flips and the rebuild replaces the object
                  UpdateVisibleNodes(h, rt,
                                     [vis EXCEPT ![cur + 1].expanded = ~@], cur)
             ELSE IF ~h[currentNode.node].isDirectory
             THEN [heap |-> h, visibleNodes |-> vis, cursorPosition |-> cur]
             ELSE UpdateVisibleNodes([h EXCEPT ![currentNode.node].expanded = ~@],
                                     rt, vis, cur)

\* the part of loadLargeDirectoryContents that runs once readdir and stat have
\* answered: the immediate entries become children of the node, unscanned
RECURSIVE AppendChildren(_, _, _, _, _)
AppendChildren(h, nm, id, validEntries, k) ==
    IF k > Len(validEntries) THEN [heap |-> h, nodeMap |-> nm]
    ELSE LET entry == validEntries[k]
             child == Len(h) + 1
             path  == Join(h[id].path, entry.name)
             h1    == Append(h, DirectoryNode(path, entry.name, entry.isDirectory))
             h2    == [h1 EXCEPT ![id].children = Append(@, child)]
         IN  AppendChildren(h2, MapSet(nm, path, child), id, validEntries, k + 1)

\* a load that scans the subdirectories it finds as the start-up scan does
LoadLargeDirectoryRecursively(h, nm, rt, vis, cur, readdir, id) ==
    IF ~ReadDirOk(readdir, h[id].path)
    THEN [heap |-> h, nodeMap |-> nm, visibleNodes |-> vis, cursorPosition |-> cur]
    ELSE
    LET st == ScanEntries([heap |-> h, nodeMap |-> nm], readdir, id, 1)
        uv == UpdateVisibleNodes([st.heap EXCEPT ![id].expanded = TRUE], rt, vis, cur)
    IN  [heap |-> uv.heap, nodeMap |-> st.nodeMap,
         visibleNodes |-> uv.visibleNodes, cursorPosition |-> uv.cursorPosition]

\* loadLargeDirectoryContents(node) from the point where readdir has settled
LoadLargeDirectoryContents(h, nm, rt, vis, cur, readdir, id) ==
    IF ~ReadDirOk(readdir, h[id].path)
    THEN [heap |-> h, nodeMap |-> nm, visibleNodes |-> vis, cursorPosition |-> cur]
    ELSE
    LET statOk(entry) == ~entry.error
        validEntries  == SelectSeq(readdir[h[id].path], statOk)
        st == AppendChildren(h, nm, id, SortEntries(validEntries), 1)
        uv == UpdateVisibleNodes([st.heap EXCEPT ![id].expanded = TRUE], rt, vis, cur)
    IN  [heap |-> uv.heap, nodeMap |-> st.nodeMap,
         visibleNodes |-> uv.visibleNodes, cursorPosition |-> uv.cursorPosition]

(***************************************************************************)
(* The key listener of start(), one action per key, and the completion of  *)
(* a load.  render() only writes to the terminal.                          *)
(***************************************************************************)
MoveUp ==
    /\ mode = "tree"
    /\ ~SubListening
    /\ cursorPosition' = IF cursorPosition > 0 THEN cursorPosition - 1 ELSE cursorPosition
    /\ UNCHANGED <<fs, mode, heap, root, nodeMap, visibleNodes, pending, uiVars,
                   viewVars, binVars, scanVars>>

MoveDown ==
    /\ mode = "tree"
    /\ ~SubListening
    /\ cursorPosition' = IF cursorPosition < Len(visibleNodes) - 1
                         THEN cursorPosition + 1 ELSE cursorPosition
    /\ UNCHANGED <<fs, mode, heap, root, nodeMap, visibleNodes, pending, uiVars,
                   viewVars, binVars, scanVars>>

ToggleSelect ==
    /\ mode = "tree"
    /\ ~SubListening
    /\ LET r == ToggleSelectAt(heap, nodeMap, visibleNodes, cursorPosition)
       IN  /\ heap' = r.heap
           /\ visibleNodes' = r.visibleNodes
    /\ UNCHANGED <<fs, mode, root, nodeMap, cursorPosition, pending, uiVars, viewVars,
                   binVars, scanVars>>

ToggleExpand ==
    /\ mode = "tree"
    /\ ~SubListening
    /\ IF StartsLoad(heap, visibleNodes, cursorPosition)
       THEN /\ BagCardinality(pending) < MaxPending
            /\ pending' = pending (+) SetToBag({visibleNodes[cursorPosition + 1].node})
            /\ UNCHANGED <<heap, visibleNodes, cursorPosition>>
       ELSE /\ LET r == ToggleExpandAt(heap, root, visibleNodes, cursorPosition)
               IN  /\ heap' = r.heap
                   /\ visibleNodes' = r.visibleNodes
                   /\ cursorPosition' = r.cursorPosition
            /\ UNCHANGED pending
    /\ UNCHANGED <<fs, mode, root, nodeMap, uiVars, viewVars, binVars, scanVars>>

LoadComplete ==
    /\ mode = "tree"
    /\ \E id \in BagToSet(pending) :
          /\ ReadDirOk(FileSystems[fs].readdir, heap[id].path) =>
                 Len(heap) + Len(FileSystems[fs].readdir[heap[id].path]) <= MaxNodes
          /\ LET r == LoadLargeDirectoryContents(heap, nodeMap, root, visibleNodes,
                                                 cursorPosition, FileSystems[fs].readdir, id)
             IN  /\ heap' = r.heap
                 /\ nodeMap' = r.nodeMap
                 /\ visibleNodes' = r.visibleNodes
                 /\ cursorPosition' = r.cursorPosition
          /\ pending' = pending (-) SetToBag({id})
    /\ UNCHANGED <<fs, mode, root, uiVars, viewVars, binVars, scanVars>>

\* q or Ctrl+C resolves start() and main calls process.exit(0): the objects are gone
Quit ==
    /\ mode = "tree"
    /\ ~SubListening
    /\ mode' = "exited"
    /\ heap' = <<>>
    /\ root' = Null
    /\ nodeMap' = EmptyMap
    /\ visibleNodes' = <<>>
    /\ cursorPosition' = 0
    /\ pending' = EmptyBag
    /\ sub' = "none"
    /\ textFiles' = <<>>
    /\ binaryFiles' = <<>>
    /\ currentFileIndex' = 0
    /\ currentPage' = 0
    /\ UNCHANGED <<fs, uiVars, written, binVars, scanVars>>

(***************************************************************************)
(* The blessed front end: DirectoryTreeNode, DirectoryTree, FileExport and *)
(* TreeUI.                                                                 *)
(***************************************************************************)
\* enum SelectState; selectState.ts is not among the sources
SelectStateNone == 0

SelectStatePartial == 1

SelectStateFull == 2

\* the ! operator on a number
Falsy(v) == v = 0

\* new DirectoryTreeNode(path, name, parent, isDirectory)
DirectoryTreeNode(path, name, parent, isDirectory) ==
    [path |-> path, name |-> name, isDirectory |-> isDirectory, children |-> <<>>,
     parent |-> parent, expanded |-> FALSE, selected |-> SelectStateNone, loaded |-> FALSE]

\* DirectoryTreeNode.toggleExpand: the heap after it (the method returns the new flag)
NodeToggleExpand(h, id) ==
    IF h[id].isDirectory THEN [h EXCEPT ![id].expanded = ~@] ELSE h

\* DirectoryTreeNode.toggleSelect
NodeToggleSelect(h, id) ==
    IF h[id].selected = SelectStateNone
    THEN [h EXCEPT ![id].selected = SelectStateFull]
    ELSE [h EXCEPT ![id].selected = SelectStateNone]

\* the for loop of loadChildrenForNode over the entries, from entry k on
RECURSIVE AddChildren(_, _, _, _, _)
AddChildren(h, nm, id, entries, k) ==
    IF k > Len(entries) THEN [heap |-> h, nodeMap |-> nm]
    ELSE LET entry     == entries[k]
             child     == Len(h) + 1
             childPath == Join(h[id].path, entry.name)
             h1 == Append(h, DirectoryTreeNode(childPath, entry.name, id, entry.isDirectory))
             h2 == [h1 EXCEPT ![id].children = Append(@, child)]
         IN  AddChildren(h2, MapSet(nm, childPath, child), id, entries, k + 1)

\* DirectoryTree.loadChildrenForNode: the entries in readdir order, then the sort
LoadChildrenForNode(h, nm, readdir, id) ==
    IF ~ReadDirOk(readdir, h[id].path) THEN [heap |-> h, nodeMap |-> nm]
    ELSE
    LET st     == AddChildren(h, nm, id, readdir[h[id].path], 1)
        kids   == st.heap[id].children
        keyed  == [i \in 1..Len(kids) |->
                      [name |-> st.heap[kids[i]].name,
                       isDirectory |-> st.heap[kids[i]].isDirectory, id |-> kids[i]]]
        sorted == SortEntries(keyed)
    IN  [heap |-> [st.heap EXCEPT ![id].children = [i \in 1..Len(sorted) |-> sorted[i].id]],
         nodeMap |-> st.nodeMap]

\* the second loop of loadFirstTwoLevels over rootNode.children, from child k on
RECURSIVE LoadSecondLevel(_, _, _, _)
LoadSecondLevel(st, readdir, rt, k) ==
    IF k > Len(st.heap[rt].children) THEN st
    ELSE LET child == st.heap[rt].children[k]
         IN  IF st.heap[child].isDirectory
             THEN LET st1 == LoadChildrenForNode(st.heap, st.nodeMap, readdir, child)
                  IN  LoadSecondLevel([st1 EXCEPT !.heap[child].loaded = TRUE],
                                      readdir, rt, k + 1)
             ELSE LoadSecondLevel(st, readdir, rt, k + 1)

\* DirectoryTree.initialize and loadFirstTwoLevels
Initialize(rootPath, readdir) ==
    LET name == IF RootName(rootPath) = "" THEN Sep ELSE RootName(rootPath)
        h0   == <<DirectoryTreeNode(rootPath, name, Null, TRUE)>>
        st1  == LoadChildrenForNode(h0, MapSet(EmptyMap, rootPath, 1), readdir, 1)
        st2  == [st1 EXCEPT !.heap[1].loaded = TRUE, !.heap[1].expanded = TRUE]
    IN  LoadSecondLevel(st2, readdir, 1, 1)

\* DirectoryTree.expandNode(path)
ExpandNode(h, nm, readdir, path) ==
    IF path \notin DOMAIN nm \/ ~h[nm[path]].isDirectory THEN [heap |-> h, nodeMap |-> nm]
    ELSE LET node == nm[path]
             h1   == NodeToggleExpand(h, node)
             isExpanding == h1[node].expanded
         IN  IF isExpanding /\ ~h1[node].loaded
             THEN LET st == LoadChildrenForNode(h1, nm, readdir, node)
                  IN  [st EXCEPT !.heap[node].loaded = TRUE]
             ELSE [heap |-> h1, nodeMap |-> nm]

\* TreeUI.renderNode: the rows of node id and of what it shows below itself
RECURSIVE RenderNode(_, _)
RECURSIVE RenderChildren(_, _, _)

RenderChildren(h, id, k) ==
    IF k > Len(h[id].children) THEN <<>>
    ELSE RenderNode(h, h[id].children[k]) \o RenderChildren(h, id, k + 1)

RenderNode(h, id) ==
    <<id>> \o (IF h[id].expanded /\ Len(h[id].children) > 0
               THEN RenderChildren(h, id, 1) ELSE <<>>)

\* TreeUI.renderTree: nodesByRow
RenderTree(h, rt) == IF rt # Null THEN RenderNode(h, rt) ELSE <<>>

\* FileExport.addFile
AddFile(paths, path) == Append(paths, path)

\* Array.prototype.splice(index, 1); a negative index counts from the end
Splice1(a, index) ==
    LET start == IF index < 0 THEN Max(Len(a) + index, 0) ELSE Min(index, Len(a))
    IN  [i \in 1..(IF start < Len(a) THEN Len(a) - 1 ELSE Len(a)) |->
            IF i <= start THEN a[i] ELSE a[i + 1]]

\* a removal that drops the last entry of the list, whatever the path
RemoveLastFile(paths, path) == Splice1(paths, -1)

\* FileExport.removeFile
RemoveFile(paths, path) ==
    LET idx   == {i \in 1..Len(paths) : paths[i] = path}
        index == IF idx = {} THEN -1 ELSE (CHOOSE i \in idx : \A j \in idx : i <= j) - 1
    IN  Splice1(paths, index)

\* main: tree.initialize(), new TreeUI, app.initialize() and app.run()
UiStart ==
    /\ uiMode = "new"
    /\ LET st == Initialize(FileSystems[fs].rootPath, FileSystems[fs].readdir)
       IN  /\ uiHeap' = st.heap
           /\ treeNodeMap' = st.nodeMap
           /\ rootNode' = 1
           /\ nodesByRow' = RenderTree(st.heap, 1)
    /\ uiMode' = "run"
    /\ UNCHANGED <<fs, explorerVars, viewVars, binVars, scanVars, selectedPaths>>

\* the enter / l key on the row the list has selected
UiEnter ==
    /\ uiMode = "run"
    /\ \E selectedIndex \in 0..(Len(nodesByRow) - 1) :
          LET node == nodesByRow[selectedIndex + 1]
          IN  IF uiHeap[node].isDirectory
              THEN LET st == ExpandNode(uiHeap, treeNodeMap, FileSystems[fs].readdir,
                                        uiHeap[node].path)
                   IN  /\ uiHeap' = st.heap
                       /\ treeNodeMap' = st.nodeMap
                       /\ nodesByRow' = RenderTree(st.heap, rootNode)
              ELSE UNCHANGED <<uiHeap, treeNodeMap, nodesByRow>>
    /\ UNCHANGED <<fs, explorerVars, viewVars, binVars, scanVars, uiMode, rootNode, selectedPaths>>

\* the space key on the row the list has selected: TreeUI.selectNode
UiSpace ==
    /\ uiMode = "run"
    /\ \E selectedIndex \in 0..(Len(nodesByRow) - 1) :
          LET node == nodesByRow[selectedIndex + 1]
          IN  /\ selectedPaths' = IF Falsy(uiHeap[node].selected)
                                  THEN AddFile(selectedPaths, uiHeap[node].path)
                                  ELSE RemoveFile(selectedPaths, uiHeap[node].path)
              /\ uiHeap' = NodeToggleSelect(uiHeap, node)
              /\ nodesByRow' = RenderTree(uiHeap', rootNode)
    /\ UNCHANGED <<fs, explorerVars, viewVars, binVars, scanVars, uiMode, rootNode, treeNodeMap>>

\* escape, q or Ctrl+C: the screen is destroyed and the process exits
UiQuit ==
    /\ uiMode = "run"
    /\ uiMode' = "exited"
    /\ uiHeap' = <<>>
    /\ rootNode' = Null
    /\ treeNodeMap' = EmptyMap
    /\ nodesByRow' = <<>>
    /\ selectedPaths' = <<>>
    /\ UNCHANGED <<fs, explorerVars, viewVars, binVars, scanVars>>

NextUI ==
    \/ UiStart
    \/ UiEnter
    \/ UiSpace
    \/ UiQuit

SpecUI == Init /\ [][NextUI]_vars

(***************************************************************************)
(* getSelectedPaths and getSelectedFiles.                                  *)
(***************************************************************************)
RECURSIVE CollectSelectedPaths(_, _)
RECURSIVE CollectSelectedChildren(_, _, _)

\* the for loop of collectSelectedPaths over node.children, from child k on
CollectSelectedChildren(h, id, k) ==
    IF k > Len(h[id].children) THEN <<>>
    ELSE CollectSelectedPaths(h, h[id].children[k]) \o CollectSelectedChildren(h, id, k + 1)

\* collectSelectedPaths(node): what it pushes on selected
CollectSelectedPaths(h, id) ==
    (IF h[id].selected THEN <<h[id].path>> ELSE <<>>)
        \o (IF h[id].isDirectory THEN CollectSelectedChildren(h, id, 1) ELSE <<>>)

GetSelectedPaths(h, rt) == IF rt # Null THEN CollectSelectedPaths(h, rt) ELSE <<>>

GetSelectedFiles(h, nm, rt) ==
    LET isFile(path) == path \in DOMAIN nm /\ ~h[nm[path]].isDirectory
    IN  SelectSeq(GetSelectedPaths(h, rt), isFile)

(***************************************************************************)
(* isBinaryFile.  Bytes are numbers 0..255.                                *)
(***************************************************************************)
\* readFileSync(...).slice(0, 4096): the number of bytes looked at
ReadLimit == 4096

\* n bytes of value b
Rep(b, n) == [i \in 1..n |-> b]

\* Buffer.prototype.slice(0, end)
Slice0(buffer, end) == SubSeq(buffer, 1, IF end < Len(buffer) THEN end ELSE Len(buffer))

\* binarySignatures; Buffer.from('RIFF') is the bytes 82 73 70 70
BinarySignatures ==
    << <<255, 216, 255>>, <<137, 80, 78, 71>>, <<80, 75, 3, 4>>, <<37, 80, 68, 70>>,
       <<71, 73, 70, 56>>, <<82, 73, 70, 70>>, <<31, 139>>, <<66, 77>> >>

\* the counting loop: a byte is counted as null, or else as control when below 9
NullCount(buffer) == Cardinality({i \in DOMAIN buffer : buffer[i] = 0})

ControlCount(buffer) == Cardinality({i \in DOMAIN buffer : buffer[i] # 0 /\ buffer[i] < 9})

\* count > buffer.length * 0.1.  The double 0.1 lies just above one tenth, so the
\* product is never below length / 10 and never reaches the next integer: the
\* comparison with an integer count is the exact one
ExceedsThreshold(count, buffer) == 10 * count > Len(buffer)

\* the null / control byte heuristic alone, the signature loop left out
HeuristicOnly(f) ==
    IF ~f.readable THEN FALSE
    ELSE LET buffer == Slice0(f.bytes, ReadLimit)
         IN  \/ ExceedsThreshold(NullCount(buffer), buffer)
             \/ ExceedsThreshold(ControlCount(buffer), buffer)

\* isBinaryFile(filePath) for the file f that filePath names
IsBinaryFile(f) ==
    IF ~f.readable THEN FALSE
    ELSE LET buffer == Slice0(f.bytes, ReadLimit)
         IN  IF \E k \in DOMAIN BinarySignatures :
                    Slice0(buffer, Len(BinarySignatures[k])) = BinarySignatures[k]
             THEN TRUE
             ELSE \/ ExceedsThreshold(NullCount(buffer), buffer)
                  \/ ExceedsThreshold(ControlCount(buffer), buffer)

\* longest file body used below the signature or in its place
MaxBody == 10

\* a body of n bytes: z nulls, c control bytes (value 8), t tabs (value 9), the rest text
Body(n, z, c, t) == Rep(0, z) \o Rep(8, c) \o Rep(9, t) \o Rep(97, n - z - c - t)

Bodies ==
    {Body(q[1], q[2], q[3], q[4]) :
        q \in {q \in {0, 1, MaxBody} \X (0..2) \X (0..2) \X (0..1) : q[2] + q[3] + q[4] <= q[1]}}

\* first bytes that fall short of a signature or differ from it in the last byte
NearMisses ==
    {SubSeq(BinarySignatures[k], 1, Len(BinarySignatures[k]) - 1) : k \in DOMAIN BinarySignatures}
    \cup {[BinarySignatures[k] EXCEPT ![Len(BinarySignatures[k])] = 98] : k \in DOMAIN BinarySignatures}

\* files longer than the part that is read
LongFiles == {Rep(97, ReadLimit) \o Rep(0, 1000), Rep(0, 500) \o Rep(97, ReadLimit)}

\* the files isBinaryFile is tried on
BinFiles ==
    {FileOf(b) : b \in Bodies}
    \cup {FileOf(BinarySignatures[k] \o b) : k \in DOMAIN BinarySignatures,
                                             b \in {Body(n, z, 0, 0) : n \in {0, MaxBody}, z \in {0, 2}}}
    \cup {FileOf(h \o Body(MaxBody, 0, 0, 0)) : h \in NearMisses}
    \cup {FileOf(b) : b \in LongFiles}
    \cup {Unreadable}

InitBin ==
    /\ fs = 1
    /\ InitObjects
    /\ scanFs = NoListings
    /\ file \in BinFiles
    /\ isBinary = "unset"

\* one call of isBinaryFile
IsBinaryFileCall ==
    /\ isBinary = "unset"
    /\ isBinary' = IF IsBinaryFile(file) THEN "true" ELSE "false"
    /\ UNCHANGED <<fs, explorerVars, uiVars, viewVars, file, scanVars>>

NextBin == IsBinaryFileCall

SpecBin == InitBin /\ [][NextBin]_vars

(***************************************************************************)
(* The sub-views of start(): save (s), list (l), view / export (c).  The   *)
(* main 'data' listener of start() stays registered while a sub-view waits *)
(* for a key, and it was registered first, so it handles every key before  *)
(* the sub-view's own listener does.                                       *)
(***************************************************************************)
\* process.stdout.rows of the terminal
TerminalRows == 12

\* pageSize = process.stdout.rows - 10
PageSize == TerminalRows - 10

\* a window that starts a whole viewport above the cursor
RenderUncentred(vis, cur) ==
    LET terminalHeight == TerminalRows - 10
        startIdx == Max(0, cur - terminalHeight)
        endIdx   == Min(startIdx + terminalHeight, Len(vis))
    IN  [startIdx |-> startIdx, endIdx |-> endIdx, scrollUp |-> startIdx > 0,
         rows |-> [i \in 1..Max(endIdx - startIdx, 0) |-> vis[startIdx + i]],
         scrollDown |-> endIdx < Len(vis)]

\* a window that starts a whole height above the cursor, on a terminal of the given
\* number of rows
RenderBelowWindow(vis, cur, stdoutRows) ==
    LET terminalHeight == stdoutRows - 10
        startIdx == Max(0, cur - terminalHeight)
        endIdx   == Min(startIdx + terminalHeight, Len(vis))
    IN  [startIdx |-> startIdx, endIdx |-> endIdx, scrollUp |-> startIdx > 0,
         rows |-> [i \in 1..Max(endIdx - startIdx, 0) |-> vis[startIdx + i]],
         scrollDown |-> endIdx < Len(vis)]

\* render() on a terminal of stdoutRows rows: the window of visibleNodes it draws and
\* the two scroll indicators; Math.floor(terminalHeight / 2) is terminalHeight \div 2
RenderOnRows(vis, cur, stdoutRows) ==
    LET terminalHeight == stdoutRows - 10
        startIdx == Max(0, cur - (terminalHeight \div 2))
        endIdx   == Min(startIdx + terminalHeight, Len(vis))
    IN  [startIdx |-> startIdx, endIdx |-> endIdx, scrollUp |-> startIdx > 0,
         rows |-> [i \in 1..Max(endIdx - startIdx, 0) |-> vis[startIdx + i]],
         scrollDown |-> endIdx < Len(vis)]

\* render() on the terminal of TerminalRows rows
Render(vis, cur) == RenderOnRows(vis, cur, TerminalRows)

\* the contents of the files of FsView
Disk ==
    (<<Sep, "r", Sep, "a.txt">> :> FileOf(<<97, 10, 98, 10, 99, 10, 100, 10, 101>>)) @@
    (<<Sep, "r", Sep, "b.txt">> :> Unreadable) @@
    (<<Sep, "r", Sep, "c.png">> :> FileOf(<<137, 80, 78, 71, 13, 10>>)) @@
    (<<Sep, "r", Sep, "d.txt">> :> FileOf(<<100>>))

\* fs.readFile / readFileSync of a path
ReadFileOf(path) == IF path \in DOMAIN Disk THEN Disk[path] ELSE Unreadable

\* content.split('\n')
RECURSIVE SplitLines(_)
SplitLines(bytes) ==
    IF \A i \in DOMAIN bytes : bytes[i] # 10
    THEN <<bytes>>
    ELSE LET i == CHOOSE j \in DOMAIN bytes :
                      bytes[j] = 10 /\ \A m \in 1..(j - 1) : bytes[m] # 10
         IN  <<SubSeq(bytes, 1, i - 1)>> \o SplitLines(SubSeq(bytes, i + 1, Len(bytes)))

\* Math.ceil(lines.length / pageSize)
TotalPagesOf(lines, pageSize) == (Len(lines) + pageSize - 1) \div pageSize

\* the lines of the file at index idx of tf
LinesOf(tf, idx) == SplitLines(ReadFileOf(tf[idx + 1]).bytes)

\* totalPages of the file at index idx of tf
TotalPages(tf, idx) == TotalPagesOf(LinesOf(tf, idx), PageSize)

\* a page that is always cut from the top of the file
DisplayFirstPage(lines, page, pageSize) == SubSeq(lines, 1, Min(pageSize, Len(lines)))

\* displayContentPage: the lines it prints, lines[startLine] .. lines[endLine - 1]
DisplayContentPage(lines, page, pageSize) ==
    LET startLine == page * pageSize
        endLine   == Min(startLine + pageSize, Len(lines))
    IN  SubSeq(lines, startLine + 1, endLine)

\* the keys pressed while a sub-view waits; "x" is any key without a meaning
SubKeys == {"q", "up", "down", "space", "enter", "n", "p", "right", "left", "1", "2", "x"}

\* the locals of viewSelectedContent and the await it is suspended at
ViewerAt(s, tf, bf, idx, page) ==
    [sub |-> s, textFiles |-> tf, binaryFiles |-> bf,
     currentFileIndex |-> idx, currentPage |-> page]

\* the handler has returned to the main listener, which renders the tree
ViewerClosed == ViewerAt("none", <<>>, <<>>, 0, 0)

\* viewSelectedContent(outputToFile) up to its first await
ViewSelectedContent(h, nm, rt, outputToFile) ==
    LET selectedFiles == GetSelectedFiles(h, nm, rt)
        binary(path)  == IsBinaryFile(ReadFileOf(path))
        text(path)    == ~IsBinaryFile(ReadFileOf(path))
        tf            == SelectSeq(selectedFiles, text)
        bf            == SelectSeq(selectedFiles, binary)
    IN  IF selectedFiles = <<>> THEN ViewerAt("anykey", <<>>, <<>>, 0, 0)
        ELSE IF outputToFile THEN ViewerAt("exporting", tf, bf, 0, 0)
        ELSE IF tf # <<>> THEN ViewerAt("reading", tf, bf, 0, 0)
        ELSE ViewerAt("anykey", tf, bf, 0, 0)

\* the top of the while loop of the pager: the next file is read, or the loop ends
NextFile(v, idx) ==
    IF idx < Len(v.textFiles)
    THEN ViewerAt("reading", v.textFiles, v.binaryFiles, idx, 0)
    ELSE ViewerClosed

\* a key taken by the pager's key wait
PagerKey(v, key) ==
    IF key = "q" THEN ViewerClosed
    ELSE IF key = "n" THEN NextFile(v, v.currentFileIndex + 1)
    ELSE IF key = "p"
         THEN NextFile(v, IF v.currentFileIndex > 0 THEN v.currentFileIndex - 1
                                                    ELSE v.currentFileIndex)
    ELSE IF key = "right"
         THEN IF v.currentPage < TotalPages(v.textFiles, v.currentFileIndex) - 1
              THEN [v EXCEPT !.currentPage = @ + 1] ELSE v
    ELSE IF key = "left"
         THEN IF v.currentPage > 0 THEN [v EXCEPT !.currentPage = @ - 1] ELSE v
    ELSE v

\* await this.readFile(file) settles: the first page is shown, or the catch block
\* prints the error and waits for a key
ReadSettles(v) ==
    IF ReadFileOf(v.textFiles[v.currentFileIndex + 1]).readable
    THEN [v EXCEPT !.sub = "pager", !.currentPage = 0]
    ELSE [v EXCEPT !.sub = "errorKey"]

\* the key wait of the catch block ends: the while loop goes round again
ErrorDismissed(v) == NextFile(v, v.currentFileIndex)

\* what the main listener does to the tree on a key other than q
TreeKey(key, h, nm, rt, vis, cur, pend) ==
    LET same == [heap |-> h, visibleNodes |-> vis, cursorPosition |-> cur, pending |-> pend]
    IN  IF key = "up"
        THEN [same EXCEPT !.cursorPosition = IF cur > 0 THEN cur - 1 ELSE cur]
        ELSE IF key = "down"
        THEN [same EXCEPT !.cursorPosition = IF cur < Len(vis) - 1 THEN cur + 1 ELSE cur]
        ELSE IF key = "space"
        THEN LET r == ToggleSelectAt(h, nm, vis, cur)
             IN  [same EXCEPT !.heap = r.heap, !.visibleNodes = r.visibleNodes]
        ELSE IF key = "enter"
        THEN IF StartsLoad(h, vis, cur)
             THEN [same EXCEPT !.pending = pend (+) SetToBag({vis[cur + 1].node})]
             ELSE LET r == ToggleExpandAt(h, rt, vis, cur)
                  IN  [same EXCEPT !.heap = r.heap, !.visibleNodes = r.visibleNodes,
                                   !.cursorPosition = r.cursorPosition]
        ELSE same

\* the sub-view's own listener takes the key, after the main listener has
\* left the tree as t
SubViewKey(key, v, t) ==
    IF v.sub = "choice"
    THEN IF key = "1" THEN ViewSelectedContent(t.heap, nodeMap, root, FALSE)
         ELSE IF key = "2" THEN ViewSelectedContent(t.heap, nodeMap, root, TRUE)
         ELSE ViewerClosed
    ELSE IF v.sub = "anykey" THEN ViewerClosed
    ELSE IF v.sub = "errorKey" THEN ErrorDismissed(v)
    ELSE IF v.sub = "pager" THEN PagerKey(v, key)
    ELSE v

Viewer == ViewerAt(sub, textFiles, binaryFiles, currentFileIndex, currentPage)

\* the application after a key pressed while a sub-view waits for one: q
\* resolves start() in the main listener and main calls process.exit(0)
AfterSubKey(key) ==
    IF key = "q"
    THEN [mode |-> "exited", root |-> Null, nodeMap |-> EmptyMap,
          tree |-> [heap |-> <<>>, visibleNodes |-> <<>>, cursorPosition |-> 0,
                    pending |-> EmptyBag],
          viewer |-> ViewerClosed]
    ELSE LET t == TreeKey(key, heap, nodeMap, root, visibleNodes, cursorPosition, pending)
         IN  [mode |-> mode, root |-> root, nodeMap |-> nodeMap, tree |-> t,
              viewer |-> SubViewKey(key, Viewer, t)]

SetViewer(v) ==
    /\ sub' = v.sub
    /\ textFiles' = v.textFiles
    /\ binaryFiles' = v.binaryFiles
    /\ currentFileIndex' = v.currentFileIndex
    /\ currentPage' = v.currentPage

\* s: saveSelection writes the list and pauses
PressS ==
    /\ mode = "tree"
    /\ sub = "none"
    /\ written' = [kind |-> "selection", lines |-> GetSelectedPaths(heap, root)]
    /\ sub' = "pause"
    /\ UNCHANGED <<fs, explorerVars, uiVars, textFiles, binaryFiles, currentFileIndex,
                   currentPage, binVars, scanVars>>

\* the setTimeout of saveSelection fires; the main listener renders
PauseEnds ==
    /\ mode = "tree"
    /\ sub = "pause"
    /\ sub' = "none"
    /\ UNCHANGED <<fs, explorerVars, uiVars, textFiles, binaryFiles, currentFileIndex,
                   currentPage, written, binVars, scanVars>>

\* l: listSelectedFiles prints the list and waits for a key
PressL ==
    /\ mode = "tree"
    /\ sub = "none"
    /\ sub' = "anykey"
    /\ UNCHANGED <<fs, explorerVars, uiVars, textFiles, binaryFiles, currentFileIndex,
                   currentPage, written, binVars, scanVars>>

\* c: the view / save menu waits for the choice
PressC ==
    /\ mode = "tree"
    /\ sub = "none"
    /\ sub' = "choice"
    /\ UNCHANGED <<fs, explorerVars, uiVars, textFiles, binaryFiles, currentFileIndex,
                   currentPage, written, binVars, scanVars>>

\* a key while a sub-view waits for one
SubKey ==
    /\ mode = "tree"
    /\ SubListening
    /\ \E key \in SubKeys :
          /\ (key = "enter" /\ StartsLoad(heap, visibleNodes, cursorPosition))
                 => BagCardinality(pending) < MaxPending
          /\ LET a == AfterSubKey(key)
             IN  /\ mode' = a.mode
                 /\ root' = a.root
                 /\ nodeMap' = a.nodeMap
                 /\ heap' = a.tree.heap
                 /\ visibleNodes' = a.tree.visibleNodes
                 /\ cursorPosition' = a.tree.cursorPosition
                 /\ pending' = a.tree.pending
                 /\ SetViewer(a.viewer)
    /\ UNCHANGED <<fs, uiVars, written, binVars, scanVars>>

\* the readFile of the pager settles
ReadDone ==
    /\ mode = "tree"
    /\ sub = "reading"
    /\ SetViewer(ReadSettles(Viewer))
    /\ UNCHANGED <<fs, explorerVars, uiVars, written, binVars, scanVars>>

\* one block of the export per text file: header and content, or the error line
ExportBlock(path) ==
    LET f == ReadFileOf(path)
    IN  IF f.readable THEN [kind |-> "file", file |-> path, content |-> f.bytes]
        ELSE [kind |-> "error", file |-> path, content |-> <<>>]

\* the strings the export output is concatenated from: a line break, the line of
\* 80 equals signs, 'FILE: <path>', a file's content, 'ERROR reading <path>: ...',
\* 'Skipping <n> binary file(s):' and '- <path>'
Piece(kind) == [kind |-> kind, width |-> 0, path |-> <<>>, bytes |-> <<>>]

NewLine == Piece("\\n")

SeparatorLine == [Piece("=") EXCEPT !.width = 80]

FileLine(path) == [Piece("FILE: ") EXCEPT !.path = path]

ContentOf(bytes) == [Piece("content") EXCEPT !.bytes = bytes]

ErrorLine(path) == [Piece("ERROR reading ") EXCEPT !.path = path]

SkippingLine(n) == [Piece("Skipping binary file(s):") EXCEPT !.width = n]

DashLine(path) == [Piece("- ") EXCEPT !.path = path]

\* binaryFiles.map(f => `- ${f}`).join('\n')
RECURSIVE JoinDashLines(_)
JoinDashLines(bf) ==
    IF bf = <<>> THEN <<>>
    ELSE IF Len(bf) = 1 THEN <<DashLine(bf[1])>>
    ELSE <<DashLine(bf[1]), NewLine>> \o JoinDashLines(Tail(bf))

\* binaryWarning, added to the output when there are binary files
BinaryWarning(bf) ==
    IF bf = <<>> THEN <<>>
    ELSE <<NewLine, SkippingLine(Len(bf)), NewLine>> \o JoinDashLines(bf) \o <<NewLine>>

\* an export that has no line for a file that cannot be read
ExportTextOfReadable(path) ==
    LET f == ReadFileOf(path)
    IN  IF f.readable
        THEN <<NewLine, SeparatorLine, NewLine, FileLine(path), NewLine, SeparatorLine,
               NewLine, ContentOf(f.bytes), NewLine>>
        ELSE <<>>

\* what the export loop adds to the output for one text file: header + content +
\* '\n', or errorMsg
ExportTextOf(path) ==
    LET f == ReadFileOf(path)
    IN  IF f.readable
        THEN <<NewLine, SeparatorLine, NewLine, FileLine(path), NewLine, SeparatorLine,
               NewLine, ContentOf(f.bytes), NewLine>>
        ELSE <<NewLine, ErrorLine(path), NewLine>>

\* the export loop over textFiles, from file k on
RECURSIVE ExportLoop(_, _)
ExportLoop(tf, k) ==
    IF k > Len(tf) THEN <<>> ELSE ExportTextOf(tf[k]) \o ExportLoop(tf, k + 1)

\* the export loop has read every text file: writeFileSync(outputFilename, output),
\* then the wait for a key
ExportDone ==
    /\ mode = "tree"
    /\ sub = "exporting"
    /\ written' = [kind |-> "contents", skipped |-> binaryFiles,
                   blocks |-> [i \in 1..Len(textFiles) |-> ExportBlock(textFiles[i])],
                   output |-> BinaryWarning(binaryFiles) \o ExportLoop(textFiles, 1)]
    /\ sub' = "anykey"
    /\ UNCHANGED <<fs, explorerVars, uiVars, textFiles, binaryFiles, currentFileIndex,
                   currentPage, binVars, scanVars>>

FsViewIndex == CHOOSE i \in DOMAIN FileSystems : FileSystems[i] = FsView

InitView ==
    /\ fs = FsViewIndex
    /\ InitObjects
    /\ scanFs = NoListings
    /\ file = NoFile
    /\ isBinary = "unset"

NextView ==
    \/ BuildTree
    \/ MoveUp
    \/ MoveDown
    \/ ToggleSelect
    \/ ToggleExpand
    \/ Quit
    \/ PressS
    \/ PauseEnds
    \/ PressL
    \/ PressC
    \/ SubKey
    \/ ReadDone
    \/ ExportDone

SpecView == InitView /\ [][NextView]_vars

(***************************************************************************)
(* The three directory scans on listings in which reads fail: scanDirectory *)
(* of the first version, scanDirectory of the second version, and          *)
(* DirectoryTree.initialize of the blessed front end.                      *)
(***************************************************************************)
\* new DirectoryNode(path, name, isDirectory) of the first version
DirectoryNodeV1(path, name, isDirectory) ==
    [path |-> path, name |-> name, isDirectory |-> isDirectory, children |-> <<>>,
     expanded |-> FALSE, selected |-> FALSE]

RECURSIVE ScanDirectoryV1(_, _, _)
RECURSIVE ScanEntriesV1(_, _, _, _)

\* the for loop of the first version's scanDirectory, from entry k on
ScanEntriesV1(st, readdir, id, k) ==
    LET sorted == SortEntries(readdir[st.heap[id].path])
    IN  IF k > Len(sorted) THEN st
        ELSE LET entry == sorted[k]
                 child == Len(st.heap) + 1
                 path  == Join(st.heap[id].path, entry.name)
                 h1    == Append(st.heap, DirectoryNodeV1(path, entry.name, entry.isDirectory))
                 h2    == [h1 EXCEPT ![id].children = Append(@, child)]
                 st1   == [heap |-> h2, nodeMap |-> MapSet(st.nodeMap, path, child)]
                 st2   == IF entry.isDirectory THEN ScanDirectoryV1(st1, readdir, child)
                          ELSE st1
             IN  ScanEntriesV1(st2, readdir, id, k + 1)

\* scanDirectory of the first version: stat has no try of its own, so one entry that
\* cannot be stat'ed rejects Promise.all and the catch block is all that runs
ScanDirectoryV1(st, readdir, id) ==
    IF ~ReadDirOk(readdir, st.heap[id].path) THEN st
    ELSE IF \E k \in DOMAIN readdir[st.heap[id].path] : readdir[st.heap[id].path][k].error
    THEN st
    ELSE ScanEntriesV1(st, readdir, id, 1)

\* the root all the listings are below
ScanRoot == <<Sep, "r">>

\* buildTree of the first version, up to the tree
BuildTreeV1(readdir) ==
    ScanDirectoryV1([heap |-> <<DirectoryNodeV1(ScanRoot, RootName(ScanRoot), TRUE)>>,
                     nodeMap |-> MapSet(EmptyMap, ScanRoot, 1)], readdir, 1)

\* buildTree of the second version, up to the tree
BuildTreeV2(readdir) ==
    ScanDirectory([heap |-> <<DirectoryNode(ScanRoot, RootName(ScanRoot), TRUE)>>,
                   nodeMap |-> MapSet(EmptyMap, ScanRoot, 1)], readdir, 1)

\* what readdir may answer for a subdirectory holding ok and, perhaps, bad; 1 stands
\* for readdir throwing
Listings(ok, bad) ==
    <<NoListings, <<>>, <<Ent(ok, FALSE)>>, <<ErrEnt(ok)>>, <<ErrEnt(bad), Ent(ok, FALSE)>>>>

\* root with the directories e and c and, by a, the file a.txt (2) or the entry
\* a.txt that cannot be stat'ed (3)
Listing(a, c, e) ==
    (ScanRoot :> (<<Ent("e", TRUE)>>
                  \o (IF a = 2 THEN <<Ent("a.txt", FALSE)>>
                      ELSE IF a = 3 THEN <<ErrEnt("a.txt")>> ELSE <<>>)
                  \o <<Ent("c", TRUE)>>))
    @@ (IF c = 1 THEN NoListings ELSE (Join(ScanRoot, "c") :> Listings("d.txt", "x.txt")[c]))
    @@ (IF e = 1 THEN NoListings ELSE (Join(ScanRoot, "e") :> Listings("f.txt", "y.txt")[e]))

\* the listings the scans are tried on, and the root that cannot be read
ScanInputs == {Listing(a, c, e) : a \in 1..3, c \in 1..5, e \in 1..5} \cup {NoListings}

InitScan ==
    /\ fs = 1
    /\ InitObjects
    /\ file = NoFile
    /\ isBinary = "unset"
    /\ scanFs \in ScanInputs

ScanV1 ==
    /\ ~scanned.v1.done
    /\ scanned' = [scanned EXCEPT !.v1 = TreeOf(BuildTreeV1(scanFs))]
    /\ UNCHANGED <<fs, explorerVars, uiVars, viewVars, binVars, scanFs>>

ScanV2 ==
    /\ ~scanned.v2.done
    /\ scanned' = [scanned EXCEPT !.v2 = TreeOf(BuildTreeV2(scanFs))]
    /\ UNCHANGED <<fs, explorerVars, uiVars, viewVars, binVars, scanFs>>

ScanUi ==
    /\ ~scanned.ui.done
    /\ scanned' = [scanned EXCEPT !.ui = TreeOf(Initialize(ScanRoot, scanFs))]
    /\ UNCHANGED <<fs, explorerVars, uiVars, viewVars, binVars, scanFs>>

NextScan ==
    \/ ScanV1
    \/ ScanV2
    \/ ScanUi

SpecScan == InitScan /\ [][NextScan]_vars

Next ==
    \/ BuildTree
    \/ MoveUp
    \/ MoveDown
    \/ ToggleSelect
    \/ ToggleExpand
    \/ LoadComplete
    \/ Quit

Spec == Init /\ [][Next]_vars

\* the explorer started on the layout with an empty directory below two deferred ones
InitNest ==
    /\ fs = IndexOf(FsEmptySub)
    /\ InitObjects
    /\ scanFs = NoListings
    /\ file = NoFile
    /\ isBinary = "unset"

SpecNest == InitNest /\ [][Next]_vars

\* the explorer started with the argument '/'
InitSlash ==
    /\ fs = IndexOf(FsSlash)
    /\ InitObjects
    /\ scanFs = NoListings
    /\ file = NoFile
    /\ isBinary = "unset"

SpecSlash == InitSlash /\ [][Next]_vars

(***************************************************************************)
(* Vocabulary of the properties.                                           *)
(***************************************************************************)
Nodes(h) == 1..Len(h)

Kids(h, n) == {h[n].children[i] : i \in 1..Len(h[n].children)}

\* the tri-state selection of a node, as render shows it
StateOf(h, n) ==
    IF h[n].selected THEN "Full" ELSE IF h[n].partiallySelected THEN "Partial" ELSE "None"

TriStateRuleAt(h, n) ==
    (h[n].isDirectory /\ Len(h[n].children) >= 1) =>
        /\ StateOf(h, n) = "Full" <=> \A c \in Kids(h, n) : StateOf(h, c) = "Full"
        /\ StateOf(h, n) = "None" <=> \A c \in Kids(h, n) : StateOf(h, c) = "None"

TriStateRule(h) == \A n \in Nodes(h) : TriStateRuleAt(h, n)

\* a step that changes no children list
SameChildren ==
    /\ Len(heap') = Len(heap)
    /\ \A n \in Nodes(heap) : heap'[n].children = heap[n].children

\* the descendants of node x, by the children lists
RECURSIVE Desc(_, _)
Desc(h, x) == Kids(h, x) \cup UNION {Desc(h, c) : c \in Kids(h, x)}

\* the ancestors of node x, by the children lists
Anc(h, x) == {a \in Nodes(h) : x \in Desc(h, a)}

\* the element of visibleNodes under the cursor
Current == visibleNodes[cursorPosition + 1]

\* the cursor is on node x of the tree
CursorOn(x) == mode = "tree" /\ Current = NodeRef(x)

\* what the space key does in the current state
AfterToggle == ToggleSelectAt(heap, nodeMap, visibleNodes, cursorPosition)

Path(names) == [i \in 1..(2 * Len(names)) |-> IF i % 2 = 1 THEN Sep ELSE names[i \div 2]]

\* the node with the given path when exactly one node has it, else Null
NodeAt(h, p) ==
    IF \E n \in Nodes(h) : h[n].path = p THEN CHOOSE n \in Nodes(h) : h[n].path = p ELSE Null

(***************************************************************************)
(* C1. After toggleSelect operations on a tree whose children lists do not *)
(* change, every directory with a child is Full iff all its children are   *)
(* Full, None iff all are None, and Partial otherwise: a step that changes *)
(* no children list keeps the rule.                                        *)
(***************************************************************************)
C1_ToggleKeepsTriStateRule ==
    [][(mode = "tree" /\ mode' = "tree" /\ TriStateRule(heap) /\ SameChildren)
           => TriStateRule(heap')]_vars

(***************************************************************************)
(* C2. The tri-state rule holds in every reachable state, also after a     *)
(* load has added children to a directory that was toggled while empty.    *)
(***************************************************************************)
C2_TriStateRuleAlways == mode = "tree" => TriStateRule(heap)

(***************************************************************************)
(* C3. Root with a.txt, b.txt and c/ holding only d.txt, everything None:  *)
(* after toggling a.txt and d.txt, in either order, a.txt, d.txt and c/    *)
(* are Full, b.txt is None and the root is Partial.                        *)
(***************************************************************************)
\* the selection of the node at path p in the blessed front end, as renderNode shows it
UiStateAt(p) ==
    LET v == uiHeap[treeNodeMap[p]].selected
    IN  IF v = SelectStateFull THEN "Full" ELSE IF v = SelectStateNone THEN "None" ELSE "Partial"

\* blessed front end: FileExport.selectedPaths holds the rows toggled on, in order
C3_UiScenario ==
    (/\ uiMode = "run"
     /\ FileSystems[fs] = FsPlain
     /\ selectedPaths \in {<<Path(<<"r", "a.txt">>), Path(<<"r", "c", "d.txt">>)>>,
                           <<Path(<<"r", "c", "d.txt">>), Path(<<"r", "a.txt">>)>>})
    => /\ UiStateAt(Path(<<"r", "a.txt">>)) = "Full"
       /\ UiStateAt(Path(<<"r", "b.txt">>)) = "None"
       /\ UiStateAt(Path(<<"r", "c", "d.txt">>)) = "Full"
       /\ UiStateAt(Path(<<"r", "c">>)) = "Full"
       /\ UiStateAt(Path(<<"r">>)) = "Partial"

\* the same scenario in the explorer: the states of a.txt, b.txt, d.txt, c/ and the root
ScenarioStates(h) ==
    <<StateOf(h, NodeAt(h, Path(<<"r", "a.txt">>))), StateOf(h, NodeAt(h, Path(<<"r", "b.txt">>))),
      StateOf(h, NodeAt(h, Path(<<"r", "c", "d.txt">>))), StateOf(h, NodeAt(h, Path(<<"r", "c">>))),
      StateOf(h, NodeAt(h, Path(<<"r">>)))>>

\* explorer: from everything None, space on a.txt and then on d.txt, or the other way
\* round, each time from the state the first toggle left
C3_ExplorerScenario ==
    (FileSystems[fs] = FsPlain /\ mode = "tree") =>
        /\ (/\ ScenarioStates(heap) = <<"None", "None", "None", "None", "None">>
            /\ CursorOn(NodeAt(heap, Path(<<"r", "a.txt">>))))
           => ScenarioStates(AfterToggle.heap) = <<"Full", "None", "None", "None", "Partial">>
        /\ (/\ ScenarioStates(heap) = <<"None", "None", "None", "None", "None">>
            /\ CursorOn(NodeAt(heap, Path(<<"r", "c", "d.txt">>))))
           => ScenarioStates(AfterToggle.heap) = <<"None", "None", "Full", "Full", "Partial">>
        /\ (/\ ScenarioStates(heap) = <<"Full", "None", "None", "None", "Partial">>
            /\ CursorOn(NodeAt(heap, Path(<<"r", "c", "d.txt">>))))
           => ScenarioStates(AfterToggle.heap) = <<"Full", "None", "Full", "Full", "Partial">>
        /\ (/\ ScenarioStates(heap) = <<"None", "None", "Full", "Full", "Partial">>
            /\ CursorOn(NodeAt(heap, Path(<<"r", "a.txt">>))))
           => ScenarioStates(AfterToggle.heap) = <<"Full", "None", "Full", "Full", "Partial">>

(***************************************************************************)
(* C4. Toggling a directory that is not Full leaves it and all its loaded  *)
(* descendants, at any depth, Full; toggling it again leaves all of them   *)
(* None.                                                                   *)
(***************************************************************************)
C4_DirectoryStamp ==
    \A x \in Nodes(heap) :
        (CursorOn(x) /\ heap[x].isDirectory /\ StateOf(heap, x) # "Full") =>
            LET once  == AfterToggle
                twice == ToggleSelectAt(once.heap, nodeMap, once.visibleNodes, cursorPosition)
            IN  /\ \A n \in {x} \cup Desc(heap, x) : StateOf(once.heap, n) = "Full"
                /\ \A n \in {x} \cup Desc(heap, x) : StateOf(twice.heap, n) = "None"

\* a directory with descendants two levels down has just been stamped Full, with a
\* node outside it left None
C4_Witness ==
    \E x \in Nodes(heap) :
        /\ CursorOn(x)
        /\ x # root
        /\ \E c \in Kids(heap, x) : Kids(heap, c) # {}
        /\ \A n \in {x} \cup Desc(heap, x) : StateOf(heap, n) = "Full"

(***************************************************************************)
(* C5. toggleSelect on x changes the selection of no node other than x,    *)
(* the descendants of x and the ancestors of x.                            *)
(***************************************************************************)
\* the node the toggled element belongs to: itself, or the directory of a placeholder
C5_FrameOfToggle ==
    mode = "tree" =>
        LET x == Current.node
            touched == (IF Current.placeholder THEN {x} ELSE {x} \cup Desc(heap, x))
                       \cup Anc(heap, x)
        IN  /\ \A n \in Nodes(heap) \ touched :
                   /\ AfterToggle.heap[n].selected = heap[n].selected
                   /\ AfterToggle.heap[n].partiallySelected = heap[n].partiallySelected
            /\ \A i \in DOMAIN visibleNodes :
                   i # cursorPosition + 1 => AfterToggle.visibleNodes[i] = visibleNodes[i]

PressEnter(h, vis, cur) ==
    IF StartsLoad(h, vis, cur)
    THEN [heap |-> h, visibleNodes |-> vis, cursorPosition |-> cur]
    ELSE ToggleExpandAt(h, root, vis, cur)

\* which node or placeholder each row shows
Rows(h, vis) == [i \in DOMAIN vis |-> [node |-> vis[i].node, placeholder |-> vis[i].placeholder]]

ExpandedDirUnderCursor(d) ==
    /\ CursorOn(d)
    /\ d # root
    /\ heap[d].isDirectory
    /\ heap[d].expanded

C7_CollapseReexpand ==
    \A d \in Nodes(heap) :
        ExpandedDirUnderCursor(d) =>
            LET first  == PressEnter(heap, visibleNodes, cursorPosition)
                second == PressEnter(first.heap, first.visibleNodes, first.cursorPosition)
                under(e) == e.node \in Desc(heap, d)
                keep(e)  == ~under(e)
            IN  /\ first.visibleNodes = SelectSeq(visibleNodes, keep)
                /\ \A n \in Desc(heap, d) :
                       /\ first.heap[n].expanded = heap[n].expanded
                       /\ StateOf(first.heap, n) = StateOf(heap, n)
                       /\ second.heap[n].expanded = heap[n].expanded
                       /\ StateOf(second.heap, n) = StateOf(heap, n)
                /\ Rows(second.heap, second.visibleNodes) = Rows(heap, visibleNodes)

\* the same two presses through DirectoryTree.expandNode and TreeUI.renderTree
C7_UiCollapseReexpand ==
    \A r \in DOMAIN nodesByRow :
        LET d == nodesByRow[r]
        IN  (uiMode = "run" /\ d # rootNode /\ uiHeap[d].isDirectory /\ uiHeap[d].expanded) =>
                LET first  == ExpandNode(uiHeap, treeNodeMap, FileSystems[fs].readdir, uiHeap[d].path)
                    second == ExpandNode(first.heap, first.nodeMap, FileSystems[fs].readdir, uiHeap[d].path)
                IN  /\ RenderTree(second.heap, rootNode) = nodesByRow
                    /\ Len(RenderTree(first.heap, rootNode)) < Len(nodesByRow)
                        \/ uiHeap[d].children = <<>>

(***************************************************************************)
(* C8. Every rebuild of the visible sequence keeps the cursor on the path  *)
(* it was on if that path is still in the new sequence; otherwise the new  *)
(* cursor index is min(oldIndex, newLength-1); it is never negative.       *)
(***************************************************************************)
\* r is the outcome of a rebuild started with the cursor on the path oldPath
CursorLaw(oldPath, r) ==
    /\ r.cursorPosition >= 0
    /\ IF \E i \in DOMAIN r.visibleNodes : PathOf(r.heap, r.visibleNodes[i]) = oldPath
       THEN /\ r.cursorPosition + 1 \in DOMAIN r.visibleNodes
            /\ PathOf(r.heap, r.visibleNodes[r.cursorPosition + 1]) = oldPath
       ELSE r.cursorPosition = Min(cursorPosition, Len(r.visibleNodes) - 1)

\* the rebuilds the handlers can run in the current state: Enter, and the end of a load
RebuildsHere ==
    (IF StartsLoad(heap, visibleNodes, cursorPosition) THEN {}
     ELSE {ToggleExpandAt(heap, root, visibleNodes, cursorPosition)})
    \cup {LoadLargeDirectoryContents(heap, nodeMap, root, visibleNodes, cursorPosition,
                                     FileSystems[fs].readdir, id) : id \in BagToSet(pending)}

\* updateVisibleNodes called after the expanded flag of any one directory has flipped
RebuildsAfterFlip ==
    {UpdateVisibleNodes([heap EXCEPT ![d].expanded = ~@], root, visibleNodes, cursorPosition) :
        d \in {n \in Nodes(heap) : heap[n].isDirectory}}

C8_CursorStability ==
    mode = "tree" =>
        \A r \in RebuildsHere \cup RebuildsAfterFlip : CursorLaw(PathOf(heap, Current), r)

\* a load is about to end that takes the row under the cursor out of the sequence
C8_Witness ==
    /\ mode = "tree"
    /\ cursorPosition > 0
    /\ \E r \in RebuildsHere :
          /\ \A i \in DOMAIN r.visibleNodes :
                 PathOf(r.heap, r.visibleNodes[i]) # PathOf(heap, Current)
          /\ r.cursorPosition = cursorPosition

(***************************************************************************)
(* C9. The visible sequence is the depth-first pre-order listing of the    *)
(* nodes all of whose proper ancestors are expanded, children in stored    *)
(* order; the root is the first entry and its children are always listed,  *)
(* whatever expand/collapse presses were applied to the root.              *)
(***************************************************************************)
RECURSIVE PreOrder(_, _, _)
RECURSIVE PreOrderChildren(_, _, _, _)

PreOrderChildren(h, rt, id, k) ==
    IF k > Len(h[id].children) THEN <<>>
    ELSE PreOrder(h, rt, h[id].children[k]) \o PreOrderChildren(h, rt, id, k + 1)

\* the listing the claim describes, the root taken as expanded
PreOrder(h, rt, id) ==
    <<id>> \o (IF id = rt \/ h[id].expanded THEN PreOrderChildren(h, rt, id, 1) ELSE <<>>)

C9_UiListing == uiMode = "run" => nodesByRow = PreOrder(uiHeap, rootNode, rootNode)

\* the same for updateVisibleNodes, the rows that stand for no node left out
C9_ExplorerListing ==
    mode = "tree" =>
        LET real(e) == ~e.placeholder
            shown == SelectSeq(visibleNodes, real)
        IN  [i \in DOMAIN shown |-> shown[i].node] = PreOrder(heap, root, root)

(***************************************************************************)
(* C10. No two nodes of the tree have the same path, whatever the order of *)
(* key events and load completions.                                        *)
(***************************************************************************)
C10_PathsInjective ==
    mode = "tree" => \A m, n \in Nodes(heap) : heap[m].path = heap[n].path => m = n


(***************************************************************************)
(* C11. While a directory scan is in flight no key handler runs: a key     *)
(* that arrives is applied to the tree, the selection or the cursor only   *)
(* after the scan has completed.  Every step taken while a load is pending *)
(* is therefore the completion of a load.                                  *)
(***************************************************************************)
C11_NoKeyDuringScan ==
    [][(mode = "tree" /\ pending # EmptyBag)
           => BagCardinality(pending') < BagCardinality(pending)]_vars


(***************************************************************************)
(* C15. isBinary returns true for every byte sequence whose leading bytes  *)
(* equal one of the signatures JPEG FF D8 FF, PNG 89 50 4E 47, ZIP 50 4B   *)
(* 03 04, PDF 25 50 44 46, GIF 47 49 46 38, 'RIFF', GZIP 1F 8B, BMP 42 4D, *)
(* whatever the remaining bytes are.                                       *)
(***************************************************************************)
\* the signatures as the claim lists them, 'RIFF' in ASCII
ClaimedSignatures ==
    { <<255, 216, 255>>, <<137, 80, 78, 71>>, <<80, 75, 3, 4>>, <<37, 80, 68, 70>>,
      <<71, 73, 70, 56>>, <<82, 73, 70, 70>>, <<31, 139>>, <<66, 77>> }

\* the bytes begin with the signature sig
StartsWith(bytes, sig) ==
    /\ Len(bytes) >= Len(sig)
    /\ \A i \in 1..Len(sig) : bytes[i] = sig[i]

HasSignature(bytes) == \E sig \in ClaimedSignatures : StartsWith(bytes, sig)

C15_SignatureIsBinary ==
    (isBinary # "unset" /\ file.readable /\ HasSignature(file.bytes)) => isBinary = "true"

\* a GZIP signature followed by plain text only has been classified binary
C15_Witness ==
    /\ isBinary = "true"
    /\ StartsWith(file.bytes, <<31, 139>>)
    /\ Len(file.bytes) = 2 + MaxBody
    /\ \A i \in 3..Len(file.bytes) : file.bytes[i] = 97

(***************************************************************************)
(* C16. For a readable file whose first min(size, 4096) bytes match no     *)
(* signature, isBinary returns true iff the null bytes among those bytes   *)
(* exceed 10% of the bytes read or the bytes of value below 9 among them   *)
(* exceed 10% of the bytes read; an empty file is not binary.              *)
(***************************************************************************)
\* the first min(size, 4096) bytes
BytesRead(bytes) == [i \in 1..(IF Len(bytes) < 4096 THEN Len(bytes) ELSE 4096) |-> bytes[i]]

CountWhere(bytes, Test(_)) == Cardinality({i \in DOMAIN bytes : Test(bytes[i])})

C16_Heuristic ==
    (isBinary # "unset" /\ file.readable /\ ~HasSignature(BytesRead(file.bytes))) =>
        LET read     == BytesRead(file.bytes)
            isNull(b) == b = 0
            below9(b) == b < 9
        IN  /\ isBinary = "true" <=> \/ 10 * CountWhere(read, isNull) > Len(read)
                                   \/ 10 * CountWhere(read, below9) > Len(read)
            /\ read = <<>> => isBinary = "false"


(***************************************************************************)
(* C18. When the root path does not exist or is not a directory, the       *)
(* program terminates with a non-zero exit status before any node is       *)
(* created and before the interactive loop starts.  The only exit of the   *)
(* running program is process.exit(0), so with such a root no node may     *)
(* ever exist, the key loop may never start and that exit is never taken.  *)
(***************************************************************************)
RootCannotBeRead == ~ReadDirOk(FileSystems[fs].readdir, FileSystems[fs].rootPath)

C18_MissingRootFails ==
    RootCannotBeRead => (heap = <<>> /\ mode = "new")

\* the same for the blessed front end
C18_UiMissingRootFails ==
    RootCannotBeRead => (uiHeap = <<>> /\ uiMode = "new")


(***************************************************************************)
(* C13. In every reachable state the children list of every directory is   *)
(* sorted: every directory child precedes every file child, and within     *)
(* each kind the names ascend; no later operation breaks that order.       *)
(***************************************************************************)
\* the children list of node n of the heap h is in the claimed order
ChildrenSorted(h, n) ==
    \A i, j \in 1..Len(h[n].children) :
        i < j =>
            LET a == h[h[n].children[i]]
                b == h[h[n].children[j]]
            IN  /\ ~(~a.isDirectory /\ b.isDirectory)
                /\ a.isDirectory = b.isDirectory => Rank(a.name) <= Rank(b.name)

C13_ChildrenStaySorted ==
    mode = "tree" => \A n \in Nodes(heap) : ChildrenSorted(heap, n)

\* the same for the blessed front end
C13_UiChildrenStaySorted ==
    uiMode = "run" => \A n \in 1..Len(uiHeap) : ChildrenSorted(uiHeap, n)


(***************************************************************************)
(* C14. The selected-path list that is saved or exported contains exactly  *)
(* the nodes whose state is Full, each once, in pre-order tree order,      *)
(* whatever the order in which they were selected; selectedFiles is that   *)
(* list restricted to the nodes that are not directories.                  *)
(***************************************************************************)
RECURSIVE WholeTree(_, _)
RECURSIVE WholeForest(_, _)

\* the nodes below the list kids, first to last, each followed by its subtree
WholeForest(childrenOf, kids) ==
    IF kids = <<>> THEN <<>>
    ELSE WholeTree(childrenOf, kids[1]) \o WholeForest(childrenOf, Tail(kids))

\* all nodes of the subtree of n in pre-order, whatever is expanded
WholeTree(childrenOf, n) == <<n>> \o WholeForest(childrenOf, childrenOf[n])

\* blessed front end: the list FileExport prints is the paths of the Full nodes in
\* pre-order
C14_UiExportList ==
    uiMode = "run" =>
        LET childrenOf == [n \in 1..Len(uiHeap) |-> uiHeap[n].children]
            isFull(n)  == uiHeap[n].selected = SelectStateFull
            full       == SelectSeq(WholeTree(childrenOf, rootNode), isFull)
        IN  selectedPaths = [i \in DOMAIN full |-> uiHeap[full[i]].path]

\* explorer: getSelectedPaths and getSelectedFiles in every state
C14_ExplorerLists ==
    mode = "tree" =>
        LET childrenOf == [n \in Nodes(heap) |-> heap[n].children]
            isFull(n)  == StateOf(heap, n) = "Full"
            isFile(n)  == ~heap[n].isDirectory
            full       == SelectSeq(WholeTree(childrenOf, root), isFull)
            files      == SelectSeq(full, isFile)
        IN  /\ GetSelectedPaths(heap, root) = [i \in DOMAIN full |-> heap[full[i]].path]
            /\ GetSelectedFiles(heap, nodeMap, root) = [i \in DOMAIN files |-> heap[files[i]].path]


(***************************************************************************)
(* C19. After initialize(rootPath) the root is loaded and expanded, every  *)
(* directory child of the root that is not in the ignore-set is loaded     *)
(* with its immediate children, no directory at depth 2 or deeper has been *)
(* loaded, and every directory whose name is in the ignore-set has zero    *)
(* children and is marked deferred.                                        *)
(***************************************************************************)
\* the directories of the heap h at depth 2 or deeper below rt
DeepDirs(h, rt) ==
    {n \in 1..Len(h) : h[n].isDirectory /\ \E c \in Kids(h, rt) : n \in Desc(h, c)}

\* the children of node n are its immediate entries on disk, one node each
HasItsEntries(h, n) ==
    LET readdir == FileSystems[fs].readdir
    IN  ReadDirOk(readdir, h[n].path) =>
            /\ Len(h[n].children) = Len(readdir[h[n].path])
            /\ \A k \in 1..Len(readdir[h[n].path]) :
                   \E c \in Kids(h, n) : /\ h[c].name = readdir[h[n].path][k].name
                                         /\ h[c].isDirectory = readdir[h[n].path][k].isDirectory

\* DirectoryTree.initialize: the tree it leaves
C19_UiInitialize ==
    [][(uiMode = "new" /\ uiMode' = "run") =>
           LET h == uiHeap'
               rt == rootNode'
           IN  /\ h[rt].loaded /\ h[rt].expanded /\ HasItsEntries(h, rt)
               /\ \A c \in Kids(h, rt) :
                      (h[c].isDirectory /\ h[c].name \notin IGNORE_DIRS) =>
                          (h[c].loaded /\ HasItsEntries(h, c))
               /\ \A n \in DeepDirs(h, rt) : ~h[n].loaded /\ h[n].children = <<>>
               /\ \A n \in 1..Len(h) :
                      (n # rt /\ h[n].isDirectory /\ h[n].name \in IGNORE_DIRS) =>
                          (h[n].children = <<>> /\ ~h[n].loaded)]_vars

\* buildTree / scanDirectory of the explorer: the tree it leaves; a node has no loaded
\* flag there, a directory that was read is one that was given its entries
C19_ExplorerScan ==
    [][(mode = "new" /\ mode' = "tree") =>
           LET h == heap'
               rt == root'
           IN  /\ h[rt].expanded
               /\ h[rt].name \notin IGNORE_DIRS => HasItsEntries(h, rt)
               /\ \A c \in Kids(h, rt) :
                      (h[c].isDirectory /\ h[c].name \notin IGNORE_DIRS) => HasItsEntries(h, c)
               /\ \A n \in DeepDirs(h, rt) : h[n].children = <<>>
               /\ \A n \in Nodes(h) :
                      (n # rt /\ h[n].isDirectory /\ h[n].name \in IGNORE_DIRS) =>
                          h[n].children = <<>>]_vars


(***************************************************************************)
(* C20. expand changes no state at all when the path is not in the map or  *)
(* names a file; when it names a directory it flips that directory's       *)
(* expanded flag, expanded to collapsed and collapsed to expanded, and     *)
(* changes the expanded flag of no other node.                             *)
(***************************************************************************)
\* explorer: toggleExpand on the node under the cursor, for the presses that do not
\* start the load of a deferred directory
C20_ExplorerExpand ==
    \A x \in Nodes(heap) :
        (CursorOn(x) /\ ~StartsLoad(heap, visibleNodes, cursorPosition)) =>
            LET r == ToggleExpandAt(heap, root, visibleNodes, cursorPosition)
            IN  IF ~heap[x].isDirectory
                THEN /\ r.heap = heap
                     /\ r.visibleNodes = visibleNodes
                     /\ r.cursorPosition = cursorPosition
                ELSE /\ r.heap[x].expanded = ~heap[x].expanded
                     /\ \A n \in Nodes(heap) \ {x} : r.heap[n].expanded = heap[n].expanded

\* blessed front end: DirectoryTree.expandNode on every path of the map and on one
\* that is not in it
C20_UiExpand ==
    uiMode = "run" =>
        \A path \in (DOMAIN treeNodeMap) \cup {Path(<<"r", "nowhere">>)} :
            LET r == ExpandNode(uiHeap, treeNodeMap, FileSystems[fs].readdir, path)
            IN  IF path \notin DOMAIN treeNodeMap \/ ~uiHeap[treeNodeMap[path]].isDirectory
                THEN r.heap = uiHeap /\ r.nodeMap = treeNodeMap
                ELSE LET d == treeNodeMap[path]
                     IN  /\ r.heap[d].expanded = ~uiHeap[d].expanded
                         /\ \A n \in (1..Len(uiHeap)) \ {d} :
                                r.heap[n].expanded = uiHeap[n].expanded
                         /\ \A n \in (Len(uiHeap) + 1)..Len(r.heap) : ~r.heap[n].expanded

(***************************************************************************)
(* C12. Pressing q while the content viewer is showing a file closes the   *)
(* viewer and returns to the tree view; it does not terminate the          *)
(* application.                                                            *)
(***************************************************************************)
\* in every state where the pager shows a file, the application after the key q
\* is still running, with no sub-view open
C12_ViewerQuitReturnsToTree ==
    (mode = "tree" /\ sub = "pager") =>
        /\ AfterSubKey("q").mode = "tree"
        /\ AfterSubKey("q").viewer.sub = "none"

\* the pager's own listener does close the viewer on q
C12_PagerClosesOnQuit ==
    (mode = "tree" /\ sub = "pager") => PagerKey(Viewer, "q") = ViewerClosed

(***************************************************************************)
(* C17. A selected file whose content cannot be read does not stop the     *)
(* processing of the selected files after it: in export mode every later   *)
(* non-binary file still gets its entry in the output, and in the          *)
(* interactive viewer the user can still reach and view every later file   *)
(* after the error is shown.                                               *)
(***************************************************************************)
\* the positions the viewer can go to in one step without leaving the application:
\* a read settling, the error being dismissed, a key of the pager
ViewerMoves(v) ==
    IF v.sub = "reading" THEN {ReadSettles(v)}
    ELSE IF v.sub = "errorKey" THEN {ErrorDismissed(v)}
    ELSE IF v.sub = "pager" THEN {PagerKey(v, key) : key \in SubKeys \ {"q"}}
    ELSE {}

\* every position the viewer can get to from the positions of frontier
RECURSIVE ViewerReach(_, _)
ViewerReach(seen, frontier) ==
    IF frontier = {} THEN seen
    ELSE LET new == UNION {ViewerMoves(v) : v \in frontier} \ seen
         IN  ViewerReach(seen \cup new, new)

\* the indices of the readable files after the current one
LaterReadable ==
    {j \in (currentFileIndex + 1)..(Len(textFiles) - 1) :
        ReadFileOf(textFiles[j + 1]).readable}

\* interactive viewer: while the read error of a file is shown, each readable file
\* after it can still be brought up in the pager
C17_ViewerReachesLaterFiles ==
    (mode = "tree" /\ sub = "errorKey") =>
        \A j \in LaterReadable :
            \E v \in ViewerReach({Viewer}, {Viewer}) :
                v.sub = "pager" /\ v.currentFileIndex = j

\* export mode: the file written has one block per text file, in order, the
\* content of each readable one and an error line for each unreadable one
C17_ExportKeepsLaterFiles ==
    [][(sub = "exporting" /\ sub' = "anykey") =>
          /\ written'.kind = "contents"
          /\ Len(written'.blocks) = Len(textFiles)
          /\ \A i \in 1..Len(textFiles) :
                /\ written'.blocks[i].file = textFiles[i]
                /\ IF ReadFileOf(textFiles[i]).readable
                   THEN /\ written'.blocks[i].kind = "file"
                        /\ written'.blocks[i].content = ReadFileOf(textFiles[i]).bytes
                   ELSE written'.blocks[i].kind = "error"]_vars

\* an export with a readable file after an unreadable one
C17_ExportWitness ==
    /\ written.kind = "contents"
    /\ \E i, j \in 1..Len(written.blocks) :
          i < j /\ written.blocks[i].kind = "error" /\ written.blocks[j].kind = "file"

(***************************************************************************)
(* C21. Every directory that is expanded has been loaded: an expand press  *)
(* that turns a directory's expanded flag on scans its immediate entries   *)
(* when they have never been scanned, also for the subdirectories created  *)
(* by the shallow load of a deferred directory; each directory is scanned  *)
(* at most once.                                                           *)
(***************************************************************************)
\* explorer: an expanded directory whose name is not on the ignore list has its
\* entries as children, one node each (a directory on the list is loaded by
\* loadLargeDirectoryContents, which sets the flag itself)
C21_ExplorerExpandedIsLoaded ==
    mode = "tree" =>
        \A x \in Nodes(heap) :
            (heap[x].isDirectory /\ heap[x].expanded /\ heap[x].name \notin IGNORE_DIRS)
                => HasItsEntries(heap, x)

\* blessed front end: an expanded directory is marked loaded and has its entries as
\* children, one node each
C21_UiExpandedIsLoaded ==
    uiMode = "run" =>
        \A x \in 1..Len(uiHeap) :
            (uiHeap[x].isDirectory /\ uiHeap[x].expanded)
                => (uiHeap[x].loaded /\ HasItsEntries(uiHeap, x))

(***************************************************************************)
(* C22. When reading a directory or one of its entries fails during a      *)
(* load, the directory still ends up marked loaded with exactly the        *)
(* children that were read successfully, the failure does not propagate,   *)
(* and the surrounding scan goes on to load the remaining sibling          *)
(* directories.                                                            *)
(***************************************************************************)
\* the entries of the directory at path that were read successfully: none when
\* readdir throws; with stat, those whose stat answers; without, all readdir names
ReadSuccessfully(path, withStat) ==
    IF ~ReadDirOk(scanFs, path) THEN {}
    ELSE {scanFs[path][k] : k \in {k \in DOMAIN scanFs[path] :
                                       withStat => ~scanFs[path][k].error}}

\* every directory of the tree h has one child for each entry read successfully
\* and no other child
ChildrenAreTheEntriesRead(h, withStat) ==
    \A n \in Nodes(h) :
        h[n].isDirectory =>
            /\ Len(h[n].children) = Cardinality(ReadSuccessfully(h[n].path, withStat))
            /\ \A entry \in ReadSuccessfully(h[n].path, withStat) :
                   \E c \in Kids(h, n) : h[c].name = entry.name

\* scanDirectory of the first version
C22_ScanV1 == scanned.v1.done => ChildrenAreTheEntriesRead(scanned.v1.heap, TRUE)

\* scanDirectory of the second version
C22_ScanV2 == scanned.v2.done => ChildrenAreTheEntriesRead(scanned.v2.heap, TRUE)

\* loadFirstTwoLevels of the blessed front end: readdirSync with file types reads
\* every entry without stat; every directory of the two levels is marked loaded
C22_UiLoad ==
    scanned.ui.done =>
        /\ ChildrenAreTheEntriesRead(scanned.ui.heap, FALSE)
        /\ \A n \in Nodes(scanned.ui.heap) :
               scanned.ui.heap[n].isDirectory => scanned.ui.heap[n].loaded

(***************************************************************************)
(* C23. For every deferred directory that is not expanded and has not been *)
(* scanned, the visible sequence contains a synthetic placeholder entry    *)
(* for it; the placeholder is never inserted into the path map and is      *)
(* never a child of any node.                                              *)
(***************************************************************************)
\* the directories on the ignore list that are shown, collapsed, without children
DeferredCollapsed ==
    {x \in Nodes(heap) :
        /\ \E i \in DOMAIN visibleNodes : visibleNodes[i] = NodeRef(x)
        /\ heap[x].isDirectory /\ heap[x].name \in IGNORE_DIRS
        /\ ~heap[x].expanded /\ heap[x].children = <<>>}

HasPlaceholder(x) ==
    \E i \in DOMAIN visibleNodes : visibleNodes[i].placeholder /\ visibleNodes[i].node = x

\* each of them has its placeholder in the visible sequence
C23_PlaceholderForDeferred == mode = "tree" => \A x \in DeferredCollapsed : HasPlaceholder(x)

\* the placeholder's path is no key of the path map, and no node of the tree has it
C23_PlaceholderIsDisplayOnly ==
    mode = "tree" =>
        \A i \in DOMAIN visibleNodes :
            visibleNodes[i].placeholder =>
                /\ PathOf(heap, visibleNodes[i]) \notin DOMAIN nodeMap
                /\ \A n \in Nodes(heap) : heap[n].path # PathOf(heap, visibleNodes[i])

(***************************************************************************)
(* C24. renderWindow uses start = max(0, cursorIndex -                     *)
(* floor(viewportHeight/2)), draws viewportHeight rows beginning at start, *)
(* shows the scroll-up indicator exactly when start > 0 and the            *)
(* scroll-down indicator exactly when visible entries exist after the last *)
(* drawn row.                                                              *)
(***************************************************************************)
\* floor(n / 2) for n >= 0, without division
HalfOf(n) == CHOOSE q \in 0..n : 2 * q <= n /\ n < 2 * q + 2

MaxPageHeight == 4

\* ceil(n / d) for d >= 1, without division
CeilOf(n, d) == CHOOSE q \in 0..n : q * d >= n /\ (q = 0 \/ (q - 1) * d < n)

\* the pages 0 .. n - 1 one after the other
RECURSIVE ConcatPages(_, _, _)
ConcatPages(lines, pageHeight, n) ==
    IF n = 0 THEN <<>>
    ELSE ConcatPages(lines, pageHeight, n - 1)
             \o DisplayContentPage(lines, n - 1, pageHeight)

PaginationLaw(lines, pageHeight) ==
    LET L == Len(lines)
        pages == TotalPagesOf(lines, pageHeight)
    IN  /\ pages = CeilOf(L, pageHeight)
        /\ \A k \in 0..(pages - 1) :
              LET page == DisplayContentPage(lines, k, pageHeight)
                  last == Min((k + 1) * pageHeight, L) - 1
              IN  /\ Len(page) = last - k * pageHeight + 1
                  /\ \A i \in 1..Len(page) : page[i] = lines[k * pageHeight + i]
        /\ ConcatPages(lines, pageHeight, pages) = lines

\* whenever the pager shows a file, by whatever keys it got there: the page on the
\* screen is the claimed slice for the current page, and the pagination of the
\* file's lines obeys the law for every page height up to MaxPageHeight
C25_Pagination ==
    (mode = "tree" /\ sub = "pager") =>
        LET lines == LinesOf(textFiles, currentFileIndex)
            shown == DisplayContentPage(lines, currentPage, PageSize)
        IN  /\ currentPage \in 0..(CeilOf(Len(lines), PageSize) - 1)
            /\ \A i \in 1..Len(shown) : shown[i] = lines[currentPage * PageSize + i]
            /\ Len(shown) = Min((currentPage + 1) * PageSize, Len(lines))
                                - currentPage * PageSize
            /\ \A pageHeight \in 1..MaxPageHeight : PaginationLaw(lines, pageHeight)

\* the pager shows the last page of a file, shorter than a full page, after another
C25_Witness ==
    /\ mode = "tree" /\ sub = "pager"
    /\ currentPage >= 1
    /\ currentPage = TotalPages(textFiles, currentFileIndex) - 1
    /\ Len(DisplayContentPage(LinesOf(textFiles, currentFileIndex), currentPage, PageSize))
           \in 1..(PageSize - 1)

(***************************************************************************)
(* C26. The content export holds, for each selected file that is not       *)
(* binary, in pre-order tree order, exactly one block: a separator line,   *)
(* 'FILE: <path>', a separator line, the content and a blank line, or one  *)
(* error line when the file cannot be read; a binary file has no block.    *)
(***************************************************************************)
\* the block the export is to hold for one file
BlockOfFile(path) ==
    IF ReadFileOf(path).readable
    THEN <<NewLine, SeparatorLine, NewLine, FileLine(path), NewLine, SeparatorLine, NewLine,
           ContentOf(ReadFileOf(path).bytes), NewLine>>
    ELSE <<NewLine, ErrorLine(path), NewLine>>

RECURSIVE BlocksOfFiles(_)
BlocksOfFiles(paths) ==
    IF paths = <<>> THEN <<>> ELSE BlockOfFile(paths[1]) \o BlocksOfFiles(Tail(paths))

\* the paths of the selected files of the tree h that are not binary, in pre-order
SelectedTextFiles(h, rt) ==
    LET childrenOf == [n \in Nodes(h) |-> h[n].children]
        wanted(n)  == /\ StateOf(h, n) = "Full"
                      /\ ~h[n].isDirectory
                      /\ ~IsBinaryFile(ReadFileOf(h[n].path))
        nodes      == SelectSeq(WholeTree(childrenOf, rt), wanted)
    IN  [i \in DOMAIN nodes |-> h[nodes[i]].path]

\* the export
ExportOutput(h, nm, rt) ==
    LET v == ViewSelectedContent(h, nm, rt, TRUE)
    IN  BinaryWarning(v.binaryFiles) \o ExportLoop(v.textFiles, 1)

\* explorer, in every state with a selected file: what the export command writes is
\* the list of skipped binary files followed by the blocks of the selected text files
C26_ExportOfEveryTree ==
    (mode = "tree" /\ GetSelectedFiles(heap, nodeMap, root) # <<>>) =>
        ExportOutput(heap, nodeMap, root)
            = BinaryWarning(ViewSelectedContent(heap, nodeMap, root, TRUE).binaryFiles)
                \o BlocksOfFiles(SelectedTextFiles(heap, root))

\* the export as it runs: the files taken at the choice are the selected text files
\* in pre-order, and the file written holds their blocks, one each, and no other
C26_ExportBlocks ==
    [][/\ (sub = "choice" /\ sub' = "exporting")
            => textFiles' = SelectedTextFiles(heap', root')
       /\ (sub = "exporting" /\ sub' = "anykey")
            => /\ written'.kind = "contents"
               /\ written'.output
                    = BinaryWarning(binaryFiles) \o BlocksOfFiles(textFiles)
               /\ \A i \in 1..Len(written'.output) :
                     written'.output[i].kind \in {"FILE: ", "ERROR reading "}
                         => ~IsBinaryFile(ReadFileOf(written'.output[i].path))]_vars

\* a written export with a skipped binary file, an error line and two file blocks
C26_Witness ==
    /\ written.kind = "contents"
    /\ written.skipped # <<>>
    /\ \E i, j, k \in 1..Len(written.output) :
          /\ i < j /\ j < k
          /\ written.output[i].kind = "FILE: "
          /\ written.output[j].kind = "ERROR reading "
          /\ written.output[k].kind = "FILE: "

(***************************************************************************)
(* C27. A node without children is never in state Partial; Partial occurs  *)
(* only on a directory with at least one child, as the result of a         *)
(* recomputation from its children.                                        *)
(***************************************************************************)
\* node n is shown as partially selected
IsPartial(h, n) == StateOf(h, n) = "Partial"

\* what a recomputation that ends in Partial has found among the children of n:
\* one that is not selected and one that is selected or partial
RecomputedPartial(h, n) ==
    /\ h[n].isDirectory
    /\ Len(h[n].children) >= 1
    /\ \E c \in Kids(h, n) : ~h[c].selected
    /\ \E c \in Kids(h, n) : h[c].selected \/ h[c].partiallySelected

\* in every state a partial node is a directory with a child, and no placeholder
\* row is partial; a node that turns partial in a step has, after the step, the
\* children a recomputation to Partial requires
C27_PartialOnlyFromChildren ==
    /\ [](/\ \A n \in Nodes(heap) :
               IsPartial(heap, n) => (heap[n].isDirectory /\ Len(heap[n].children) >= 1)
          /\ \A i \in DOMAIN visibleNodes :
               visibleNodes[i].placeholder => ~visibleNodes[i].partiallySelected)
    /\ [][\A n \in Nodes(heap') :
             (IsPartial(heap', n) /\ (n \in Nodes(heap) => ~IsPartial(heap, n)))
                 => RecomputedPartial(heap', n)]_vars

\* a directory is partial after one of its children was toggled
C27_Witness ==
    \E n \in Nodes(heap) :
        /\ IsPartial(heap, n)
        /\ \E c \in Kids(heap, n) : heap[c].selected
        /\ \E c \in Kids(heap, n) : ~heap[c].selected /\ ~heap[c].partiallySelected

(***************************************************************************)
(* C28. The first expansion of a deferred directory creates nodes only for *)
(* that directory's immediate entries: after it completes, every new node  *)
(* is a direct child of the deferred directory and none of the new         *)
(* subdirectories has children.                                            *)
(***************************************************************************)
\* the nodes a step has created
NewNodes == Nodes(heap') \ Nodes(heap)

\* every step of the running explorer that creates nodes creates them for the
\* entries of one directory with a name on the ignore list: each new node is a
\* child of it, stands for an entry of its listing, and has no children
C28_ShallowLoad ==
    [][(mode = "tree" /\ NewNodes # {}) =>
          \E d \in Nodes(heap) :
              /\ heap[d].isDirectory
              /\ heap[d].name \in IGNORE_DIRS
              /\ heap'[d].expanded
              /\ \A n \in NewNodes :
                    /\ n \in Kids(heap', d)
                    /\ \E i \in DOMAIN FileSystems[fs].readdir[heap[d].path] :
                          LET entry == FileSystems[fs].readdir[heap[d].path][i]
                          IN  /\ heap'[n].name = entry.name
                              /\ heap'[n].isDirectory = entry.isDirectory
                              /\ heap'[n].path = Join(heap[d].path, entry.name)
                    /\ heap'[n].children = <<>>]_vars

\* a loaded deferred directory with a subdirectory that has no children in the
\* tree though its listing on disk has entries
C28_Witness ==
    /\ mode = "tree"
    /\ \E d \in Nodes(heap) :
          /\ heap[d].name \in IGNORE_DIRS
          /\ heap[d].expanded
          /\ \E n \in Kids(heap, d) :
                /\ heap[n].isDirectory
                /\ heap[n].children = <<>>
                /\ ReadDirOk(FileSystems[fs].readdir, heap[n].path)
                /\ FileSystems[fs].readdir[heap[n].path] # <<>>

(***************************************************************************)
(* C29. Toggling a directory that has zero children (empty, or deferred    *)
(* and not yet scanned) is allowed and behaves as for a file: the          *)
(* directory itself becomes Full (or None if it was Full), no other node   *)
(* is stamped, and its ancestors are recomputed counting it as a Full (or  *)
(* None) child.                                                            *)
(***************************************************************************)
\* the directories of the tree h that have node n below them
RECURSIVE AncestorsOf(_, _)
AncestorsOf(h, n) ==
    LET parents == {p \in Nodes(h) : n \in Kids(h, p)}
    IN  parents \cup UNION {AncestorsOf(h, p) : p \in parents}

\* the cursor is on the row of a directory without children
OnChildlessDirectory ==
    /\ mode = "tree"
    /\ cursorPosition + 1 \in DOMAIN visibleNodes
    /\ ~visibleNodes[cursorPosition + 1].placeholder
    /\ heap[visibleNodes[cursorPosition + 1].node].isDirectory
    /\ heap[visibleNodes[cursorPosition + 1].node].children = <<>>

\* toggleSelect on the childless directory d has given the heap h2: d has gone to
\* Full, or to None from Full; every node that is not d and not above d is as it was;
\* every directory above d is in the state a recomputation from its children gives
ToggledAsLeaf(h, h2, d) ==
    /\ StateOf(h2, d) = (IF StateOf(h, d) = "Full" THEN "None" ELSE "Full")
    /\ \A n \in Nodes(h) \ ({d} \cup AncestorsOf(h, d)) :
          /\ h2[n].selected = h[n].selected
          /\ h2[n].partiallySelected = h[n].partiallySelected
    /\ \A a \in AncestorsOf(h, d) :
          /\ UpdateDirectorySelectionState(h2, a) = h2
          /\ TriStateRuleAt(h2, a)

C29_ChildlessDirectoryIsLeaf ==
    OnChildlessDirectory =>
        ToggledAsLeaf(heap,
                      ToggleSelectAt(heap, nodeMap, visibleNodes, cursorPosition).heap,
                      visibleNodes[cursorPosition + 1].node)

(***************************************************************************)
(* C30. The upward recomputation after a toggle may stop at the first      *)
(* ancestor whose recomputed state equals its previous state: starting     *)
(* from any state in which the tri-state rule holds, a walk that stops     *)
(* early leaves every node in the same selection state as a walk that      *)
(* recomputes every ancestor up to the root.                               *)
(***************************************************************************)
\* the walk of updateParentSelectionStates, ended at the first directory that the
\* recomputation leaves in the state it had
RECURSIVE WalkStoppingEarly(_, _, _)
WalkStoppingEarly(h, nm, path) ==
    LET parentPath == ParentPath(path)
    IN  IF parentPath \notin DOMAIN nm THEN h
        ELSE LET parent == nm[parentPath]
                 h1     == UpdateDirectorySelectionState(h, parent)
             IN  IF StateOf(h1, parent) = StateOf(h, parent) THEN h1
                 ELSE WalkStoppingEarly(h1, nm, h[parent].path)

\* the number of directories a walk from the given path has recomputed when it
\* ends, for the early walk (early = TRUE) and for the walk to the root
RECURSIVE WalkLength(_, _, _, _)
WalkLength(h, nm, path, early) ==
    LET parentPath == ParentPath(path)
    IN  IF parentPath \notin DOMAIN nm THEN 0
        ELSE LET parent == nm[parentPath]
                 h1     == UpdateDirectorySelectionState(h, parent)
             IN  IF early /\ StateOf(h1, parent) = StateOf(h, parent) THEN 1
                 ELSE 1 + WalkLength(h1, nm, h[parent].path, early)

\* the heap when toggleSelect has stamped the node under the cursor and its
\* subtree, before the walk over the ancestors
StampedByToggle(h, vis, cur) ==
    LET currentNode == vis[cur + 1]
        id == currentNode.node
        h1 == [h EXCEPT ![id].selected = ~h[id].selected, ![id].partiallySelected = FALSE]
    IN  IF currentNode.placeholder THEN h
        ELSE IF h1[id].isDirectory THEN SetSelectionRecursive(h1, id, ~h[id].selected)
        ELSE h1

\* the cursor is on a row and the tri-state rule holds in the tree
ToggleFromRuleState ==
    /\ mode = "tree"
    /\ cursorPosition + 1 \in DOMAIN visibleNodes
    /\ TriStateRule(heap)

\* from every such state the toggle of the row under the cursor gives every node
\* the same state with the early walk as with the walk of toggleSelect
C30_EarlyStopIsEquivalent ==
    ToggleFromRuleState =>
        LET stamped == StampedByToggle(heap, visibleNodes, cursorPosition)
            path    == PathOf(heap, visibleNodes[cursorPosition + 1])
            full    == ToggleSelectAt(heap, nodeMap, visibleNodes, cursorPosition).heap
            early   == WalkStoppingEarly(stamped, nodeMap, path)
        IN  /\ full = UpdateParentSelectionStates(stamped, nodeMap, path)
            /\ \A n \in Nodes(heap) : StateOf(early, n) = StateOf(full, n)

\* a toggle of a node whose parent is partial before and after it: the early walk
\* ends at the parent and recomputes fewer directories than the walk to the root
C30_Witness ==
    /\ ToggleFromRuleState
    /\ ~visibleNodes[cursorPosition + 1].placeholder
    /\ LET stamped == StampedByToggle(heap, visibleNodes, cursorPosition)
           path    == PathOf(heap, visibleNodes[cursorPosition + 1])
       IN  /\ WalkLength(stamped, nodeMap, path, TRUE)
                 < WalkLength(stamped, nodeMap, path, FALSE)
           /\ \E n \in Nodes(heap) :
                 /\ visibleNodes[cursorPosition + 1].node \in Kids(heap, n)
                 /\ StateOf(heap, n) = "Partial"
                 /\ StateOf(WalkStoppingEarly(stamped, nodeMap, path), n) = "Partial"

(***************************************************************************)
(* C31. After any sequence of key events (up, down, expand/collapse,       *)
(* toggle select, and completions of deferred loads) the visible sequence  *)
(* is non-empty and 0 <= cursorPosition < length of the visible sequence,  *)
(* so the cursor always designates an existing visible entry.              *)
(***************************************************************************)
C31_CursorOnARow ==
    mode = "tree" =>
        /\ Len(visibleNodes) >= 1
        /\ 0 <= cursorPosition
        /\ cursorPosition < Len(visibleNodes)
        /\ visibleNodes[cursorPosition + 1].node \in Nodes(heap)

\* the cursor is on the first child of a deferred directory that a load has filled,
\* the row that has taken the place of the placeholder
C31_Witness ==
    /\ mode = "tree"
    /\ cursorPosition >= 1
    /\ ~visibleNodes[cursorPosition + 1].placeholder
    /\ \E d \in Nodes(heap) :
          /\ heap[d].name \in IGNORE_DIRS
          /\ heap[d].expanded
          /\ visibleNodes[cursorPosition + 1].node \in Kids(heap, d)
          /\ visibleNodes[cursorPosition].node = d

(***************************************************************************)
(* C32. While a sub-view is waiting for a key (the selected-files list,    *)
(* the content viewer's pager, the view/save choice prompt, or the pause   *)
(* after saving), a key pressed for that sub-view is consumed by the       *)
(* sub-view only: it does not also move the tree cursor, toggle a          *)
(* selection, expand/collapse a directory or start another action in the   *)
(* tree view.                                                              *)
(***************************************************************************)
\* a step that is not the end of a load: no load leaves the pending ones
NoLoadEnds == BagCardinality(pending') >= BagCardinality(pending)

\* every step taken while a sub-view waits for a key, the ends of loads apart, leaves
\* the tree, the visible list, the cursor and the pending loads as they are
C32_SubViewConsumesKey ==
    [][(mode = "tree" /\ mode' = "tree" /\ SubListening /\ NoLoadEnds)
          => UNCHANGED <<heap, visibleNodes, cursorPosition, pending>>]_vars

(***************************************************************************)
(* FileExport on its own: addFile and removeFile called with any path.     *)
(***************************************************************************)
MaxPaths == 4

ExportPaths == {<<Sep, "a.txt">>, <<Sep, "b.txt">>, <<Sep, "c">>}

\* new FileExport()
InitExport ==
    /\ fs = 1
    /\ InitObjects
    /\ scanFs = NoListings
    /\ file = NoFile
    /\ isBinary = "unset"

\* fileExport.addFile(path)
AddFileCall ==
    /\ Len(selectedPaths) < MaxPaths
    /\ \E path \in ExportPaths : selectedPaths' = AddFile(selectedPaths, path)
    /\ UNCHANGED <<fs, explorerVars, uiMode, uiHeap, rootNode, treeNodeMap, nodesByRow,
                   viewVars, binVars, scanVars>>

\* fileExport.removeFile(path)
RemoveFileCall ==
    /\ \E path \in ExportPaths : selectedPaths' = RemoveFile(selectedPaths, path)
    /\ UNCHANGED <<fs, explorerVars, uiMode, uiHeap, rootNode, treeNodeMap, nodesByRow,
                   viewVars, binVars, scanVars>>

NextExport ==
    \/ AddFileCall
    \/ RemoveFileCall

SpecExport == InitExport /\ [][NextExport]_vars

(***************************************************************************)
(* C33. FileExport.removeFile(p) removes at most the one entry equal to p  *)
(* and leaves every other entry and their order unchanged; when p is not   *)
(* in the list, the list is unchanged.                                     *)
(***************************************************************************)
\* the list a without its element number i
Without(a, i) == [k \in 1..(Len(a) - 1) |-> IF k < i THEN a[k] ELSE a[k + 1]]

\* for every path: removeFile on the list as it is gives the list without one entry
\* equal to the path, or the list itself when no entry equals the path
C33_RemoveFileFrame ==
    \A p \in ExportPaths :
        LET after == RemoveFile(selectedPaths, p)
        IN  IF \E i \in 1..Len(selectedPaths) : selectedPaths[i] = p
            THEN \E i \in 1..Len(selectedPaths) :
                    selectedPaths[i] = p /\ after = Without(selectedPaths, i)
            ELSE after = selectedPaths

\* the half of the claim for a path that is in the list
C33_RemovesOneEntry ==
    \A p \in ExportPaths :
        (\E i \in 1..Len(selectedPaths) : selectedPaths[i] = p) =>
            \E i \in 1..Len(selectedPaths) :
                selectedPaths[i] = p /\ RemoveFile(selectedPaths, p) = Without(selectedPaths, i)

(***************************************************************************)
(* C34. In the blessed UI, after any sequence of space presses on rows,    *)
(* FileExport's path list contains each path at most once and contains     *)
(* exactly the paths of the nodes whose selection state is Full.           *)
(***************************************************************************)
C34_UiListIsTheFullNodes ==
    uiMode = "run" =>
        /\ \A i, j \in 1..Len(selectedPaths) :
              selectedPaths[i] = selectedPaths[j] => i = j
        /\ {selectedPaths[i] : i \in 1..Len(selectedPaths)}
              = {uiHeap[n].path : n \in {m \in 1..Len(uiHeap) :
                                            uiHeap[m].selected = SelectStateFull}}

\* space presses have left two paths in the list and a node that is not selected
C34_Witness ==
    /\ uiMode = "run"
    /\ Len(selectedPaths) >= 2
    /\ \E m \in 1..Len(uiHeap) : uiHeap[m].selected = SelectStateNone

(***************************************************************************)
(* C35. Starting from a state in which the tri-state rule holds, toggling  *)
(* the same node twice in a row restores the selection state of every node *)
(* in the tree when the node was None or Full before the first toggle;     *)
(* when it was Partial the two toggles leave it and its whole subtree      *)
(* None.                                                                   *)
(***************************************************************************)
\* toggleSelect twice with the cursor where it is
ToggledTwice ==
    LET once == ToggleSelectAt(heap, nodeMap, visibleNodes, cursorPosition)
    IN  ToggleSelectAt(once.heap, nodeMap, once.visibleNodes, cursorPosition)

C35_ToggleTwice ==
    (ToggleFromRuleState /\ ~Current.placeholder) =>
        LET x == Current.node
        IN  IF StateOf(heap, x) = "Partial"
            THEN \A n \in {x} \cup Desc(heap, x) : StateOf(ToggledTwice.heap, n) = "None"
            ELSE \A n \in Nodes(heap) : StateOf(ToggledTwice.heap, n) = StateOf(heap, n)

\* the same for the placeholder row, whose flag is kept in the visible list
C35_TogglePlaceholderTwice ==
    (ToggleFromRuleState /\ Current.placeholder) =>
        /\ ToggledTwice.visibleNodes = visibleNodes
        /\ \A n \in Nodes(heap) : StateOf(ToggledTwice.heap, n) = StateOf(heap, n)

\* the cursor is on a partial directory below the root; the directories above it are
\* partial too
C35_WitnessPartial ==
    /\ ToggleFromRuleState
    /\ ~Current.placeholder
    /\ StateOf(heap, Current.node) = "Partial"
    /\ Anc(heap, Current.node) # {}

\* the cursor is on a Full node that has a sibling which is not Full
C35_Witness ==
    /\ ToggleFromRuleState
    /\ ~Current.placeholder
    /\ StateOf(heap, Current.node) = "Full"
    /\ \E p \in Nodes(heap) :
          /\ Current.node \in Kids(heap, p)
          /\ StateOf(heap, p) = "Partial"
          /\ Anc(heap, p) # {}

(***************************************************************************)
(* The first version's flattening of the tree.                             *)
(***************************************************************************)
RECURSIVE AddVisibleNodes(_, _, _, _)
RECURSIVE AddVisibleChildren(_, _, _, _)

\* the for loop of addVisibleNodes over node.children, from child k on
AddVisibleChildren(h, out, id, k) ==
    IF k > Len(h[id].children) THEN out
    ELSE AddVisibleChildren(h, AddVisibleNodes(h, out, h[id].children[k], TRUE), id, k + 1)

\* addVisibleNodes(node, isVisible), first version; out is this.visibleNodes
AddVisibleNodes(h, out, id, isVisible) ==
    LET out1 == IF isVisible THEN Append(out, NodeRef(id)) ELSE out
    IN  IF h[id].isDirectory /\ h[id].expanded /\ isVisible
        THEN AddVisibleChildren(h, out1, id, 1)
        ELSE out1

\* the list the first version's updateVisibleNodes builds
VisibleNodesV1(h, rt) ==
    IF rt # Null THEN AddVisibleNodes([h EXCEPT ![rt].expanded = TRUE], <<>>, rt, TRUE)
    ELSE <<>>

\* the list the second version's updateVisibleNodes builds
VisibleNodesV2(h, rt) == UpdateVisibleNodes(h, rt, <<>>, 0).visibleNodes

(***************************************************************************)
(* C36. For every tree and every assignment of expanded flags in which no  *)
(* directory is an ignore-set directory with zero children, the            *)
(* explicit-stack flattening of updateVisibleNodes (second version)        *)
(* produces the same visible sequence as the recursive addVisibleNodes     *)
(* (first version).                                                        *)
(***************************************************************************)
\* the tree h with the expanded flag set on the nodes of E and on no other
WithExpanded(h, E) == [n \in Nodes(h) |-> [h[n] EXCEPT !.expanded = (n \in E)]]

NoEmptyIgnoredDirectory(h) ==
    \A n \in Nodes(h) :
        ~(h[n].isDirectory /\ h[n].name \in IGNORE_DIRS /\ Len(h[n].children) = 0)

\* the tree of every reachable state, under every assignment of the flags
C36_FlatteningsAgree ==
    (mode = "tree" /\ NoEmptyIgnoredDirectory(heap)) =>
        \A E \in SUBSET Nodes(heap) :
            VisibleNodesV2(WithExpanded(heap, E), root)
                = VisibleNodesV1(WithExpanded(heap, E), root)

\* a tree shown whole, with an expanded directory below the root that has two or
\* more children: the order in which siblings leave the stack matters
C36_Witness ==
    /\ mode = "tree"
    /\ NoEmptyIgnoredDirectory(heap)
    /\ \E d \in Kids(heap, root) :
          /\ Len(heap[d].children) >= 2
          /\ heap[d].expanded
          /\ Len(VisibleNodesV1(heap, root)) = Len(heap)
          /\ VisibleNodesV1(heap, root) = visibleNodes

(***************************************************************************)
(* C37. For every viewport height >= 1 and every valid cursor index, the   *)
(* row under the cursor lies inside the drawn window: start <= cursorIndex *)
(* < min(start + viewportHeight, visible length).                          *)
(***************************************************************************)
\* largest viewport height the window is computed for
MaxViewportHeight == 6

\* the visible list and the cursor of every reachable state, drawn on terminals of
\* 11 to 10 + MaxViewportHeight rows
C37_CursorInsideWindow ==
    (mode = "tree" /\ cursorPosition \in 0..(Len(visibleNodes) - 1)) =>
        \A viewportHeight \in 1..MaxViewportHeight :
            LET r == RenderOnRows(visibleNodes, cursorPosition, viewportHeight + 10)
            IN  /\ r.startIdx <= cursorPosition
                /\ cursorPosition < Min(r.startIdx + viewportHeight, Len(visibleNodes))
                /\ r.endIdx = Min(r.startIdx + viewportHeight, Len(visibleNodes))
                /\ \E i \in 1..Len(r.rows) : r.rows[i] = visibleNodes[cursorPosition + 1]

\* the cursor is on the last row of a list that does not fit into a viewport of
\* three rows: the window has left the top of the list
C37_Witness ==
    /\ mode = "tree"
    /\ Len(visibleNodes) >= 4
    /\ cursorPosition = Len(visibleNodes) - 1
    /\ RenderOnRows(visibleNodes, cursorPosition, 13).startIdx > 0

(***************************************************************************)
(* C38. Throughout the interactive content viewer, for pageSize >= 1,      *)
(* 0 <= currentPage < totalPages and 0 <= currentFileIndex <= number of    *)
(* text files; next-page on the last page, previous-page on the first page *)
(* and previous-file on the first file leave the indices unchanged,        *)
(* switching file resets the page to 0, and next-file on the last file     *)
(* ends the viewer.                                                        *)
(***************************************************************************)
\* the pager shows a page and waits for a key
PagerWaits == mode = "tree" /\ sub = "pager"

\* the two indices of the viewer v are those of the current state
SameIndices(v) ==
    /\ v.currentFileIndex = currentFileIndex
    /\ v.currentPage = currentPage

\* the bounds of the two indices
PagerIndicesInRange ==
    /\ 0 <= currentFileIndex
    /\ currentFileIndex <= Len(textFiles)
    /\ sub = "pager" =>
          /\ currentFileIndex < Len(textFiles)
          /\ 0 <= currentPage
          /\ currentPage < TotalPages(textFiles, currentFileIndex)

\* the keys that are to change nothing: next-page on the last page and
\* previous-page on the first
PageKeysAtTheEnds ==
    /\ currentPage = TotalPages(textFiles, currentFileIndex) - 1
          => SameIndices(PagerKey(Viewer, "right"))
    /\ currentPage = 0 => SameIndices(PagerKey(Viewer, "left"))

\* the keys that switch the file, and next-file on the last file
FileKeys ==
    /\ currentFileIndex < Len(textFiles) - 1
          => /\ PagerKey(Viewer, "n").currentFileIndex = currentFileIndex + 1
             /\ PagerKey(Viewer, "n").currentPage = 0
    /\ currentFileIndex > 0
          => /\ PagerKey(Viewer, "p").currentFileIndex = currentFileIndex - 1
             /\ PagerKey(Viewer, "p").currentPage = 0
    /\ currentFileIndex = Len(textFiles) - 1 => PagerKey(Viewer, "n") = ViewerClosed

\* the claim without previous-file on the first file
C38_PagerStateMachine ==
    (mode = "tree" => PagerIndicesInRange) /\ (PagerWaits => (PageKeysAtTheEnds /\ FileKeys))

\* the whole claim: previous-file on the first file also leaves both indices
C38_PagerIndices ==
    /\ C38_PagerStateMachine
    /\ (PagerWaits /\ currentFileIndex = 0) => SameIndices(PagerKey(Viewer, "p"))

(***************************************************************************)
(* C39. For every non-root node reachable from the root, the chain of      *)
(* nodes that updateParentSelectionStates visits (found by cutting the     *)
(* path at its last '/' and looking the prefix up in the path map) is      *)
(* exactly the node's ancestors from its parent up to and including the    *)
(* root, for every root path including the filesystem root '/'.            *)
(***************************************************************************)
\* the nodes the while loop of updateParentSelectionStates visits for a node with
\* the given path, in the order of the visits
RECURSIVE VisitedByWalk(_, _, _)
VisitedByWalk(h, nm, path) ==
    LET parentPath == ParentPath(path)
    IN  IF parentPath \notin DOMAIN nm THEN <<>>
        ELSE <<nm[parentPath]>> \o VisitedByWalk(h, nm, h[nm[parentPath]].path)

\* the directories above node n by the children lists, from its parent to the root
RECURSIVE ParentsUpToRoot(_, _)
ParentsUpToRoot(h, n) ==
    LET parents == {p \in Nodes(h) : n \in Kids(h, p)}
    IN  IF parents = {} THEN <<>>
        ELSE LET p == CHOOSE q \in parents : TRUE
             IN  <<p>> \o ParentsUpToRoot(h, p)

C39_WalkVisitsTheAncestors ==
    mode = "tree" =>
        \A n \in Desc(heap, root) :
            VisitedByWalk(heap, nodeMap, heap[n].path) = ParentsUpToRoot(heap, n)

====
